---- MODULE Spec2Model ----
(***************************************************************************)
(* A model of the Recurse Python REPL worker (pkg/python/bootstrap.py):    *)
(* the main loop, the request dispatcher, the evaluator, the namespace     *)
(* and the callback channel, as a state machine over the host-facing pipe. *)
(*                                                                         *)
(* `wire` is the history of the pipe: every line the worker consumed from  *)
(* its stdin and everything it put on its stdout, in the order it happened.*)
(* User code is arbitrary; it is modelled by the operations it can perform *)
(* that the worker can tell apart (bind a name, print, call a callback     *)
(* helper, run a CLI helper, raise, exit), chosen one at a time.           *)
(***************************************************************************)
EXTENDS Integers, Sequences, FiniteSets, TLC

\* ------------------------------------------------------------- bounds
\* Input lines the host sends during one run.
MaxLines == 3
\* Operations one piece of user code performs.
MaxOps == 2
\* get_var's start and end are drawn from -MaxIndex..MaxIndex.
MaxIndex == 4
\* The host draws request ids from 1..MaxId (a line without an id gets 0).
MaxId == 1

\* -------------------------------------------------- program constants
ParseErrorCode == -32700
MethodNotFoundCode == -32601
InternalErrorCode == -32603

\* ---------------------------------------------------------- data sets
ReqIds == 1..MaxId

\* The methods handle_request knows, and one it does not.
KnownMethods == {"execute", "set_var", "get_var", "list_vars", "status", "shutdown"}
HostMethods == KnownMethods \cup {"ping"}

\* Names of the namespace: a user variable, a preloaded binding, an
\* underscore-prefixed name and the name of a builtin.
NsNames == {"x", "json", "_t", "len"}
\* A reconciliation that exempts no name.
Stdlib_empty == {}

\* The names update_from_exec never records (its `stdlib` set).
Stdlib == {"json"}
\* update_from_exec's `builtins` set: the worker runs as a script, where
\* __builtins__ is the builtins module, which has no __iter__.
BuiltinsSet == {}
\* str.isidentifier() over the names the host sends.
ValidIdentifiers == {"x", "json", "q", "_t", "len"}

\* Values are object identities: strings, an instance of a user-defined
\* class whose special methods (__str__, __len__) run user code, a preloaded
\* module object, a list, an int, a dict.
Absent == "<absent>"
Obj == "<user object>"
StrVals == {"s1"}
Preloaded == "<module json>"
MoreStrVals == {"s1", "s2", "", "abc"}
ListVal == "<list>"
IntVal == "<int>"
DictVal == "<dict>"
\* None, and the string llm_call returns when its callback failed.
NoneVal == "<None>"
LlmCallError == "[LLM_CALL_ERROR: ...]"
PyValues == MoreStrVals \cup {ListVal, IntVal, DictVal, Preloaded, Obj}

\* The characters of a string, the elements of a list.
Items(v) ==
  CASE v = "s1" -> <<"s", "1">>
    [] v = "s2" -> <<"s", "2">>
    [] v = "abc" -> <<"a", "b", "c">>
    [] v = ListVal -> <<"p", "q", "r">>
    [] v = LlmCallError -> <<"[", "E", "]">>
    [] OTHER -> <<>>

\* type(v).__name__
TypeName(v) ==
  CASE v \in MoreStrVals -> "str"
    [] v = ListVal -> "list"
    [] v = IntVal -> "int"
    [] v = DictVal -> "dict"
    [] v = Preloaded -> "module"
    [] v = NoneVal -> "NoneType"
    [] v = LlmCallError -> "str"
    [] OTHER -> "A"

\* hasattr(v, "__len__"), hasattr(v, "__getitem__")
HasLen(v) == v \in MoreStrVals \cup {ListVal, DictVal}
HasGetItem(v) == v \in MoreStrVals \cup {ListVal, DictVal}
\* v[a:b] is defined (a dict's __getitem__ raises TypeError on a slice).
Sliceable(v) == v \in MoreStrVals \cup {ListVal}

\* The parameter of a request line that the handlers branch on.
ArgsOf(m) ==
  CASE m = "execute" -> {"code", "bad_syntax"}
    [] m = "set_var" -> {"x", "1x"}
    [] m = "get_var" -> {"x", "q"}
    [] OTHER -> {""}

\* get_var's optional parameters and their defaults.
NoOpt == [start |-> 0, end |-> 0, as_repr |-> FALSE]

Line(kind, body, id, arg) ==
  [kind |-> kind, body |-> body, id |-> id, arg |-> arg, val |-> "", opt |-> NoOpt]

\* {"id": id, "method": "set_var", "params": {"name": name, "value": v}}
SetVarLine(id, name, v) == [Line("request", "set_var", id, name) EXCEPT !.val = v]

\* Everything the host can put on the worker's stdin as one line.
RequestLines ==
  UNION {{Line("request", m, i, a) : i \in ReqIds, a \in ArgsOf(m)} :
           m \in HostMethods \ {"set_var"}}
  \cup {SetVarLine(i, a, v) : i \in ReqIds, a \in ArgsOf("set_var"), v \in StrVals}
ReplyLines == {Line("reply", "result", 0, ""), Line("reply", "error", 0, "")}
OtherLines == {Line("junk", "", 0, ""), Line("blank", "", 0, ""), Line("nonobj", "", 0, "")}
HostLines == RequestLines \cup ReplyLines \cup OtherLines
EofLine == Line("eof", "", 0, "")

\* ------------------------------------------------------------- state
VARIABLES
  pc,                   \* where the worker is: start, idle, run, await, done, exited, crashed
  wire,                 \* history of the pipe, reads and writes in order
  eof,                  \* the host closed the worker's stdin
  cur,                  \* the request being handled
  steps,                \* operations the running user code has performed
  gdict,                \* execute's globals_dict, the copy user code works on
  outbuf,               \* the StringIO capture has received text
  ns_vars,              \* REPLNamespace._vars
  ns_globals,           \* REPLNamespace._globals
  exec_count,           \* REPL.exec_count
  callback_id_counter,  \* _callback_id_counter
  final_output,         \* _final_output
  enabled,              \* _callback_enabled, _memory_enabled, _hallucination_enabled
  pydantic,             \* PYDANTIC_AVAILABLE
  probe                 \* one call of a handler or helper: its arguments and what it returned

vars == <<pc, wire, eof, cur, steps, gdict, outbuf, ns_vars, ns_globals,
          exec_count, callback_id_counter, final_output, enabled, pydantic, probe>>

worker == <<ns_vars, ns_globals, exec_count, callback_id_counter, final_output, enabled>>

\* The three subsystems a helper can belong to, all enabled at start.
AllEnabled == [callbacks |-> TRUE, memory |-> TRUE, hallucination |-> TRUE]

\* `sig`: the CPU signal was delivered during this request. `form`, `expr`
\* and `evals`: how execute's code parsed, its (trailing) expression, and
\* how many evaluations of that expression have begun.
NoReq ==
  [id |-> 0, method |-> "none", pos |-> 0, sig |-> FALSE, form |-> "", expr |-> "",
   evals |-> 0]
Req(id, method, pos) == [NoReq EXCEPT !.id = id, !.method = method, !.pos = pos]
EmptyNs == [n \in NsNames |-> Absent]

\* A string the worker produced from a value: str() or repr() of an object
\* of the given type with the given characters or elements.
NoText == [conv |-> "", type |-> "", items |-> <<>>]
StringOf(conv, v, items) == [conv |-> conv, type |-> TypeName(v), items |-> items]

\* FinalOutput(content, output_type, metadata): `metadata` is the language
\* of a code output, "" for the empty mapping.
FinalRecord(content, type, metadata) ==
  [content |-> content, type |-> type, metadata |-> metadata]
\* _final_output = None
NoFinal == FinalRecord(NoText, "none", "")

\* What a result frame carries besides its kind: get_var's value, length
\* and type, execute's return_value (in `value`) and the exception its
\* error names, list_vars' entries, status' exec_count.
NoRes == [value |-> NoText, length |-> 0, type |-> "", vars |-> {}, error |-> "", count |-> 0]

\* ------------------------------------------------------ pipe events
\* A line consumed from stdin, by the main loop or by _make_callback.
InEv(l, by) ==
  [dir |-> "in", kind |-> l.kind, body |-> l.body, id |-> l.id, arg |-> l.arg,
   val |-> l.val, opt |-> l.opt,
   by |-> by, code |-> 0, err |-> FALSE, outp |-> FALSE, res |-> NoRes, req |-> 0]

OutEv(kind, body, id, code, err, outp, req) ==
  [dir |-> "out", kind |-> kind, body |-> body, id |-> id, arg |-> "",
   val |-> "", opt |-> NoOpt,
   by |-> "", code |-> code, err |-> err, outp |-> outp, res |-> NoRes, req |-> req]

\* A ready frame that never reports pydantic.
ReadyFrame_nopydantic(p) == OutEv("result", "ready", 0, 0, FALSE, FALSE, 0)

\* {"id": 0, "result": {"ready": true, "pydantic": p}}
ReadyFrame(p) ==
  OutEv("result", IF p THEN "ready,pydantic" ELSE "ready", 0, 0, FALSE, FALSE, 0)

\* {"id": id, "result": ...}
ResultFrame(id, body, req) == OutEv("result", body, id, 0, FALSE, FALSE, req)

\* {"id": id, "result": {"output", "return_value", "error", "duration_ms"}}
ExecFrame(id, err, outp, req) == OutEv("result", "exec", id, 0, err, outp, req)

\* execute's result with its return_value
ExecResult(id, err, outp, rv, req) ==
  [ExecFrame(id, err, outp, req) EXCEPT !.res = [NoRes EXCEPT !.value = rv]]

\* execute's result for an evaluation that raised: "error" names the
\* exception, return_value is "".
ExecError(id, outp, what, req) ==
  [ExecResult(id, TRUE, outp, NoText, req) EXCEPT !.res.error = what]

\* {"id": id, "result": {"running": true, ..., "exec_count": count, ...}}
StatusFrame(id, count, req) ==
  [ResultFrame(id, "status", req) EXCEPT !.res = [NoRes EXCEPT !.count = count]]

\* {"id": id, "result": {"value": ..., "length": ..., "type": ...}}
GetVarFrame(id, r, req) ==
  [ResultFrame(id, "value", req) EXCEPT
     !.res = [NoRes EXCEPT !.value = r.value, !.length = r.length, !.type = r.type]]

\* {"id": id, "result": {"variables": [...]}}
ListVarsFrame(id, entries, req) ==
  [ResultFrame(id, "vars", req) EXCEPT !.res = [NoRes EXCEPT !.vars = entries]]

\* {"id": id, "error": {"code": code, ...}}
ErrorFrame(id, code, req) == OutEv("error", "", id, code, FALSE, FALSE, req)

\* {"callback": type, "callback_id": n, "params": ...}
CallbackFrame(type, n, req) == OutEv("callback", type, n, 0, FALSE, FALSE, req)

\* Bytes on the pipe that are not a frame.
RawText(req) == OutEv("raw", "text", 0, 0, FALSE, FALSE, req)

\* A write that reaches the host ahead of what was written before it.
Write_prepend(w, f) == <<f>> \o w

\* write + flush on the stdout pipe
Write(w, f) == Append(w, f)

NumIn(w) == Cardinality({i \in 1..Len(w) : w[i].dir = "in" /\ w[i].kind # "eof"})

\* The host has another line to send.
CanSend == ~eof /\ NumIn(wire) < MaxLines

\* ------------------------------------------------------------- init
NoProbe == [fn |-> "none"]

InitWorker ==
  /\ pc = "start"
  /\ wire = <<>>
  /\ eof = FALSE
  /\ cur = NoReq
  /\ steps = 0
  /\ gdict = EmptyNs
  /\ outbuf = FALSE
  /\ ns_vars = EmptyNs
  /\ ns_globals = [n \in NsNames |-> IF n = "json" THEN Preloaded ELSE Absent]
  /\ exec_count = 0
  /\ callback_id_counter = 0
  /\ final_output = NoFinal
  /\ enabled = AllEnabled
  /\ pydantic \in BOOLEAN

Init == InitWorker /\ probe = NoProbe

\* main(): the ready signal
Start ==
  /\ pc = "start"
  /\ wire' = Write(wire, ReadyFrame(pydantic))
  /\ pc' = "idle"
  /\ UNCHANGED <<eof, cur, steps, gdict, outbuf, worker, pydantic, probe>>

\* ------------------------------------------------- the main loop
\* request.get("id", 0), request.get("method", ""): a JSON object that is
\* no request (a callback reply read by the main loop) has neither key.
ReqId(l) == IF l.kind = "request" THEN l.id ELSE 0
ReqMethod(l) == IF l.kind = "request" THEN l.body ELSE ""

\* A main loop without the break.
AfterResponse_noBreak(method) == "idle"

\* main(): `if request.get("method") == "shutdown": break`
AfterResponse(method) == IF method = "shutdown" THEN "done" ELSE "idle"

\* Position in `wire` of the line being read now.
Pos == Len(wire) + 1

\* A parse failure reported with the internal-error code.
ParseErrorResponse_internal(req) == ErrorFrame(0, InternalErrorCode, req)

\* main(): the response to a line that is not JSON
ParseErrorResponse(req) == ErrorFrame(0, ParseErrorCode, req)

\* An unknown method answered without the request's id.
MethodNotFoundResponse_id0(id, req) == ErrorFrame(0, MethodNotFoundCode, req)

\* handle_request: the response to a method that is not known
MethodNotFoundResponse(id, req) == ErrorFrame(id, MethodNotFoundCode, req)

\* A handler's exception reported without the id of its request.
InternalErrorResponse_noId(id, req) == ErrorFrame(0, InternalErrorCode, req)

\* handle_request: `except Exception` around the handlers
InternalErrorResponse(id, req) == ErrorFrame(id, InternalErrorCode, req)

\* handle_request: the response to shutdown
ShutdownResponse(id, req) == ResultFrame(id, "ok", req)

\* The state one evaluation owns, as it is between evaluations.
ResetLocals ==
  /\ cur' = NoReq
  /\ steps' = 0
  /\ gdict' = EmptyNs
  /\ outbuf' = FALSE

\* A main loop that takes the end of its input for an empty line.
ReadEOF_keepsReading ==
  /\ pc = "idle" /\ ~eof
  /\ wire' = Append(wire, InEv(EofLine, "main"))
  /\ eof' = TRUE
  /\ UNCHANGED <<pc, cur, steps, gdict, outbuf, worker, pydantic, probe>>

\* `for line in sys.stdin` ends: main returns.
ReadEOF ==
  /\ pc = "idle"
  /\ wire' = Append(wire, InEv(EofLine, "main"))
  /\ eof' = TRUE
  /\ pc' = "done"
  /\ UNCHANGED <<cur, steps, gdict, outbuf, worker, pydantic, probe>>

\* `if not line: continue`
SkipBlank ==
  /\ pc = "idle" /\ CanSend
  /\ \E l \in HostLines :
       /\ l.kind = "blank"
       /\ wire' = Append(wire, InEv(l, "main"))
  /\ UNCHANGED <<pc, eof, cur, steps, gdict, outbuf, worker, pydantic, probe>>

\* json.loads raises JSONDecodeError
ParseError ==
  /\ pc = "idle" /\ CanSend
  /\ \E l \in HostLines :
       /\ l.kind = "junk"
       /\ wire' = Write(Append(wire, InEv(l, "main")), ParseErrorResponse(Pos))
  /\ UNCHANGED <<pc, eof, cur, steps, gdict, outbuf, worker, pydantic, probe>>

\* json.loads returns a value that is no object: request.get raises
\* AttributeError before handle_request's try block, and main has no handler.
NonObject ==
  /\ pc = "idle" /\ CanSend
  /\ \E l \in HostLines :
       /\ l.kind = "nonobj"
       /\ wire' = Append(wire, InEv(l, "main"))
  /\ pc' = "crashed"
  /\ UNCHANGED <<eof, cur, steps, gdict, outbuf, worker, pydantic, probe>>

\* handle_request: method == "shutdown"
Shutdown ==
  /\ pc = "idle" /\ CanSend
  /\ \E l \in HostLines :
       /\ l.kind \in {"request", "reply"} /\ ReqMethod(l) = "shutdown"
       /\ wire' = Write(Append(wire, InEv(l, "main")), ShutdownResponse(ReqId(l), Pos))
       /\ pc' = AfterResponse(ReqMethod(l))
  /\ UNCHANGED <<eof, cur, steps, gdict, outbuf, worker, pydantic, probe>>

\* handle_request: the final else branch
MethodNotFound ==
  /\ pc = "idle" /\ CanSend
  /\ \E l \in HostLines :
       /\ l.kind \in {"request", "reply"} /\ ReqMethod(l) \notin KnownMethods
       /\ wire' = Write(Append(wire, InEv(l, "main")), MethodNotFoundResponse(ReqId(l), Pos))
       /\ pc' = AfterResponse(ReqMethod(l))
  /\ UNCHANGED <<eof, cur, steps, gdict, outbuf, worker, pydantic, probe>>

\* REPL.status
Status ==
  /\ pc = "idle" /\ CanSend
  /\ \E l \in HostLines :
       /\ l.kind = "request" /\ ReqMethod(l) = "status"
       /\ wire' = Write(Append(wire, InEv(l, "main")), StatusFrame(ReqId(l), exec_count, Pos))
       /\ pc' = AfterResponse(ReqMethod(l))
  /\ UNCHANGED <<eof, cur, steps, gdict, outbuf, worker, pydantic, probe>>

\* A set_var that stores in the user-variable map only.
SetVarOf_varsOnly(L) ==
  /\ pc = "idle" /\ CanSend
  /\ \E l \in L :
       /\ l.kind = "request" /\ ReqMethod(l) = "set_var"
       /\ IF l.arg \in ValidIdentifiers /\ l.arg \in NsNames
          THEN /\ ns_vars' = [ns_vars EXCEPT ![l.arg] = l.val]
               /\ wire' = Write(Append(wire, InEv(l, "main")), ResultFrame(ReqId(l), "ok", Pos))
          ELSE /\ UNCHANGED ns_vars
               /\ wire' = Write(Append(wire, InEv(l, "main")), InternalErrorResponse(ReqId(l), Pos))
       /\ pc' = AfterResponse(ReqMethod(l))
  /\ UNCHANGED <<eof, cur, steps, gdict, outbuf, ns_globals, exec_count, callback_id_counter,
                 final_output, enabled, pydantic, probe>>

\* REPL.set_var and REPLNamespace.set_var, the host sending a line of L
SetVarOf(L) ==
  /\ pc = "idle" /\ CanSend
  /\ \E l \in L :
       /\ l.kind = "request" /\ ReqMethod(l) = "set_var"
       /\ IF l.arg \in ValidIdentifiers /\ l.arg \in NsNames
          THEN /\ ns_vars' = [ns_vars EXCEPT ![l.arg] = l.val]
               /\ ns_globals' = [ns_globals EXCEPT ![l.arg] = l.val]
               /\ wire' = Write(Append(wire, InEv(l, "main")), ResultFrame(ReqId(l), "ok", Pos))
          ELSE /\ UNCHANGED <<ns_vars, ns_globals>>
               /\ wire' = Write(Append(wire, InEv(l, "main")), InternalErrorResponse(ReqId(l), Pos))
       /\ pc' = AfterResponse(ReqMethod(l))
  /\ UNCHANGED <<eof, cur, steps, gdict, outbuf, exec_count, callback_id_counter,
                 final_output, enabled, pydantic, probe>>

SetVar == SetVarOf(HostLines)

\* REPLNamespace.get_var: _vars first, then _globals, else KeyError (Absent)
NsGet(uv, g, name) ==
  IF name \in NsNames /\ uv[name] # Absent THEN uv[name]
  ELSE IF name \in NsNames /\ g[name] # Absent THEN g[name]
  ELSE Absent

\* Python's s[start:stop] and s[start:] on a sequence: a negative index
\* counts from the end, an index out of range is clamped.
ClampIndex(i, n) ==
  IF i < 0 THEN (IF i + n < 0 THEN 0 ELSE i + n) ELSE (IF i > n THEN n ELSE i)
PySlice(s, start, stop) ==
  LET lo == ClampIndex(start, Len(s))
      hi == ClampIndex(stop, Len(s))
  IN IF lo < hi THEN SubSeq(s, lo + 1, hi) ELSE <<>>
PySliceFrom(s, start) == SubSeq(s, ClampIndex(start, Len(s)) + 1, Len(s))

\* A get_var that measures the length after slicing.
GetVarResult_lenAfterSlice(v, start, end, as_repr) ==
  LET slices == (start # 0 \/ end # 0) /\ HasGetItem(v)
      items == IF ~slices THEN Items(v)
               ELSE IF end # 0 THEN PySlice(Items(v), start, end)
               ELSE PySliceFrom(Items(v), start)
  IN [raised |-> slices /\ ~Sliceable(v),
      value |-> StringOf(IF as_repr THEN "repr" ELSE "str", v, items),
      length |-> IF HasLen(v) THEN Len(items) ELSE 0,
      type |-> TypeName(v)]

\* REPL.get_var on the value found: the length, the optional slice, the
\* conversion to a string, the type name. `raised` when value[start:end]
\* raises.
GetVarResult(v, start, end, as_repr) ==
  LET total_len == IF HasLen(v) THEN Len(Items(v)) ELSE 0
      slices == (start # 0 \/ end # 0) /\ HasGetItem(v)
      items == IF ~slices THEN Items(v)
               ELSE IF end # 0 THEN PySlice(Items(v), start, end)
               ELSE PySliceFrom(Items(v), start)
  IN [raised |-> slices /\ ~Sliceable(v),
      value |-> StringOf(IF as_repr THEN "repr" ELSE "str", v, items),
      length |-> total_len,
      type |-> TypeName(v)]

\* REPL.get_var, the host sending a line of L. len(value) and str(value) of
\* an instance of a user class run that class's methods: the handler goes
\* on in user code.
GetVarOf(L) ==
  /\ pc = "idle" /\ CanSend
  /\ \E l \in L :
       /\ l.kind = "request" /\ ReqMethod(l) = "get_var"
       /\ LET value == NsGet(ns_vars, ns_globals, l.arg)
              r == GetVarResult(value, l.opt.start, l.opt.end, l.opt.as_repr)
          IN
          CASE value = Absent \/ (value # Obj /\ r.raised) ->
                 /\ wire' = Write(Append(wire, InEv(l, "main")), InternalErrorResponse(ReqId(l), Pos))
                 /\ pc' = AfterResponse(ReqMethod(l))
                 /\ UNCHANGED <<cur, steps>>
            [] value = Obj ->
                 /\ wire' = Append(wire, InEv(l, "main"))
                 /\ pc' = "run"
                 /\ cur' = Req(ReqId(l), "get_var", Pos)
                 /\ steps' = 0
            [] OTHER ->
                 /\ wire' = Write(Append(wire, InEv(l, "main")), GetVarFrame(ReqId(l), r, Pos))
                 /\ pc' = AfterResponse(ReqMethod(l))
                 /\ UNCHANGED <<cur, steps>>
  /\ UNCHANGED <<eof, gdict, outbuf, worker, pydantic, probe>>

GetVar == GetVarOf(HostLines)

\* REPLNamespace.list_vars: one entry per user variable, with its type
\* name and, where the value has __len__, its length.
ListVarsResult(uv) ==
  {[name |-> n, type |-> TypeName(uv[n]),
    length |-> IF HasLen(uv[n]) THEN {Len(Items(uv[n]))} ELSE {}] :
     n \in {m \in NsNames : uv[m] # Absent}}

\* REPL.list_vars and REPLNamespace.list_vars: len(value) and
\* value.__sizeof__() of every user variable.
ListVars ==
  /\ pc = "idle" /\ CanSend
  /\ \E l \in HostLines :
       /\ l.kind = "request" /\ ReqMethod(l) = "list_vars"
       /\ IF \E n \in NsNames : ns_vars[n] = Obj
          THEN /\ wire' = Append(wire, InEv(l, "main"))
               /\ pc' = "run"
               /\ cur' = Req(ReqId(l), "list_vars", Pos)
               /\ steps' = 0
          ELSE /\ wire' = Write(Append(wire, InEv(l, "main")),
                                ListVarsFrame(ReqId(l), ListVarsResult(ns_vars), Pos))
               /\ pc' = AfterResponse(ReqMethod(l))
               /\ UNCHANGED <<cur, steps>>
  /\ UNCHANGED <<eof, gdict, outbuf, worker, pydantic, probe>>

\* An execute that counts only the code that parses.
BeginExecuteOf_countParsed(L) ==
  /\ pc = "idle" /\ CanSend
  /\ \E l \in L :
       /\ l.kind = "request" /\ ReqMethod(l) = "execute"
       /\ exec_count' = IF l.arg = "bad_syntax" THEN exec_count ELSE exec_count + 1
       /\ IF l.arg = "bad_syntax"
          THEN /\ wire' = Write(Append(wire, InEv(l, "main")),
                                ExecError(ReqId(l), FALSE, "SyntaxError", Pos))
               /\ pc' = AfterResponse(ReqMethod(l))
               /\ UNCHANGED <<cur, steps, gdict, outbuf>>
          ELSE /\ wire' = Append(wire, InEv(l, "main"))
               /\ pc' = "run"
               /\ cur' = [Req(ReqId(l), "execute", Pos) EXCEPT !.form = l.arg, !.expr = l.val]
               /\ steps' = 0
               /\ gdict' = ns_globals
               /\ outbuf' = FALSE
  /\ UNCHANGED <<eof, ns_vars, ns_globals, callback_id_counter, final_output, enabled,
                 pydantic, probe>>

\* REPL.execute up to the start of the evaluation, the host sending a line
\* of L: count, parse, copy the globals, redirect stdout and stderr. Code
\* that parses in neither mode raises SyntaxError inside the try block.
BeginExecuteOf(L) ==
  /\ pc = "idle" /\ CanSend
  /\ \E l \in L :
       /\ l.kind = "request" /\ ReqMethod(l) = "execute"
       /\ exec_count' = exec_count + 1
       /\ IF l.arg = "bad_syntax"
          THEN /\ wire' = Write(Append(wire, InEv(l, "main")),
                                ExecError(ReqId(l), FALSE, "SyntaxError", Pos))
               /\ pc' = AfterResponse(ReqMethod(l))
               /\ UNCHANGED <<cur, steps, gdict, outbuf>>
          ELSE /\ wire' = Append(wire, InEv(l, "main"))
               /\ pc' = "run"
               /\ cur' = [Req(ReqId(l), "execute", Pos) EXCEPT !.form = l.arg, !.expr = l.val]
               /\ steps' = 0
               /\ gdict' = ns_globals
               /\ outbuf' = FALSE
  /\ UNCHANGED <<eof, ns_vars, ns_globals, callback_id_counter, final_output, enabled,
                 pydantic, probe>>

BeginExecute == BeginExecuteOf(HostLines)

MainLoop ==
  \/ ReadEOF \/ SkipBlank \/ ParseError \/ NonObject
  \/ Shutdown \/ MethodNotFound \/ Status \/ SetVar \/ GetVar \/ ListVars
  \/ BeginExecute

\* ------------------------------------------------------ user code
\* The names user code binds, and what it binds them to.
UserValues == StrVals \cup {Obj}
AssignNames == {"x"}

\* execute holds redirect_stdout/redirect_stderr; get_var and list_vars
\* hold no redirection while they call into a value's methods.
Redirected == cur.method = "execute"

CanStep == pc = "run" /\ steps < MaxOps

\* A reconciliation that skips no name for its spelling.
StartsWithUnderscore_never(n) == FALSE

\* update_from_exec: `if name.startswith("_"): continue`
StartsWithUnderscore(n) == n \in {"_t"}

\* update_from_exec: the names it records as user variables
Recorded(g, new) ==
  {n \in NsNames :
     /\ new[n] # Absent
     /\ ~StartsWithUnderscore(n)
     /\ n \notin BuiltinsSet /\ n \notin Stdlib
     /\ (g[n] = Absent \/ g[n] # new[n])}

\* A reconciliation that also forgets the names the code deleted.
UpdateVars_mirror(uv, g, new) ==
  [n \in NsNames |-> IF n \in Recorded(g, new) THEN new[n]
                     ELSE IF new[n] = Absent THEN Absent ELSE uv[n]]

\* update_from_exec: `self._vars[name] = value` for the names it records
UpdateVars(uv, g, new) ==
  [n \in NsNames |-> IF n \in Recorded(g, new) THEN new[n] ELSE uv[n]]

\* A reconciliation that records user variables without merging them into
\* the binding map.
UpdateGlobals_stale(g, new) == g

\* update_from_exec: `self._globals[name] = value` for the names it records
UpdateGlobals(g, new) ==
  [n \in NsNames |-> IF n \in Recorded(g, new) THEN new[n] ELSE g[n]]

\* A counter that is not advanced once it is set.
NextCallbackId_stuck(c) == IF c = 0 THEN 1 ELSE c

\* _make_callback: `_callback_id_counter += 1`
NextCallbackId(c) == c + 1

\* An exception of class Exception leaves the user code, `w` being the pipe
\* so far and `what` the exception. execute reports it in result.error and
\* skips update_from_exec; handle_request turns one from get_var into
\* -32603; list_vars swallows it (`except Exception: pass`) and goes on.
Raise(w, what) ==
  CASE cur.method = "execute" ->
         /\ wire' = Write(w, ExecError(cur.id, outbuf, what, cur.pos))
         /\ pc' = AfterResponse(cur.method)
         /\ ResetLocals
    [] cur.method = "get_var" ->
         /\ wire' = Write(w, InternalErrorResponse(cur.id, cur.pos))
         /\ pc' = AfterResponse(cur.method)
         /\ ResetLocals
    [] OTHER ->
         /\ wire' = w
         /\ steps' = steps + 1
         /\ UNCHANGED <<pc, cur, gdict, outbuf>>

\* An error result that has lost what the code printed.
Throw_dropOutput(w) ==
  CASE cur.method = "execute" ->
         /\ wire' = Write(w, ExecError(cur.id, FALSE, "Exception", cur.pos))
         /\ pc' = AfterResponse(cur.method)
         /\ ResetLocals
    [] cur.method = "get_var" ->
         /\ wire' = Write(w, InternalErrorResponse(cur.id, cur.pos))
         /\ pc' = AfterResponse(cur.method)
         /\ ResetLocals
    [] OTHER ->
         /\ wire' = w
         /\ steps' = steps + 1
         /\ UNCHANGED <<pc, cur, gdict, outbuf>>

\* The user code raises an exception of its own.
Throw(w) == Raise(w, "Exception")

\* name = value, for a name of N and a value of V
OpAssignOf(N, V) ==
  /\ CanStep /\ cur.method = "execute"
  /\ \E n \in N, v \in V : gdict' = [gdict EXCEPT ![n] = v]
  /\ steps' = steps + 1
  /\ UNCHANGED <<pc, wire, eof, cur, outbuf, worker, pydantic, probe>>

OpAssign == OpAssignOf(AssignNames, UserValues)

\* del name, for a name the globals bind
OpDelete ==
  /\ CanStep /\ cur.method = "execute"
  /\ \E n \in NsNames :
       /\ gdict[n] # Absent
       /\ gdict' = [gdict EXCEPT ![n] = Absent]
  /\ steps' = steps + 1
  /\ UNCHANGED <<pc, wire, eof, cur, outbuf, worker, pydantic, probe>>

\* print(...) or a write to sys.stderr: into the capture buffers when
\* redirected, onto the process's stdout when not.
OpPrint ==
  /\ CanStep
  /\ IF Redirected
     THEN outbuf' = TRUE /\ UNCHANGED wire
     ELSE wire' = Write(wire, RawText(cur.pos)) /\ UNCHANGED outbuf
  /\ steps' = steps + 1
  /\ UNCHANGED <<pc, eof, cur, gdict, worker, pydantic, probe>>

\* llm_call(...) with callbacks enabled, up to _make_callback's readline
OpCallback ==
  /\ CanStep
  /\ callback_id_counter' = NextCallbackId(callback_id_counter)
  /\ wire' = Write(wire, CallbackFrame("llm_call", callback_id_counter', cur.pos))
  /\ pc' = "await"
  /\ steps' = steps + 1
  /\ UNCHANGED <<eof, cur, gdict, outbuf, ns_vars, ns_globals, exec_count,
                 final_output, enabled, pydantic, probe>>

\* A wait that hands a status request to the dispatcher instead of taking
\* it as the reply.
AwaitReply_dispatch ==
  /\ pc = "await"
  /\ \/ /\ CanSend
        /\ \E l \in HostLines :
             IF l.kind = "request" /\ l.body = "status"
             THEN /\ wire' = Append(Append(wire, InEv(l, "main")),
                                    ResultFrame(l.id, "status", Len(wire) + 1))
                  /\ pc' = "await"
             ELSE /\ wire' = Append(wire, InEv(l, "callback"))
                  /\ pc' = "run"
        /\ UNCHANGED eof
     \/ /\ wire' = Append(wire, InEv(EofLine, "callback"))
        /\ eof' = TRUE
        /\ pc' = "run"
  /\ UNCHANGED <<cur, steps, gdict, outbuf, worker, pydantic, probe>>

\* _make_callback from readline on, and llm_call's `except Exception`: the
\* next line, whatever it is, or EOF, is the reply; the helper returns the
\* result or a placeholder and the user code goes on.
AwaitReply ==
  /\ pc = "await"
  /\ \/ /\ CanSend
        /\ \E l \in HostLines : wire' = Append(wire, InEv(l, "callback"))
        /\ UNCHANGED eof
     \/ /\ wire' = Append(wire, InEv(EofLine, "callback"))
        /\ eof' = TRUE
  /\ pc' = "run"
  /\ UNCHANGED <<cur, steps, gdict, outbuf, worker, pydantic, probe>>

\* raise SomeError(...)
OpRaise ==
  /\ CanStep
  /\ Throw(wire)
  /\ UNCHANGED <<eof, worker, pydantic, probe>>

\* raise E() for a class E(Exception) whose __str__ raises an Exception.
\* execute's handler formats the error with f"{e}", which raises inside the
\* handler: the exception leaves execute and handle_request answers -32603.
\* From get_var, handle_request's own str(e) raises and nothing catches it.
\* list_vars swallows it without formatting it.
OpRaiseUnprintable ==
  /\ CanStep
  /\ CASE cur.method = "execute" ->
            /\ wire' = Write(wire, InternalErrorResponse(cur.id, cur.pos))
            /\ pc' = AfterResponse(cur.method)
            /\ ResetLocals
       [] cur.method = "get_var" ->
            /\ pc' = "crashed"
            /\ UNCHANGED <<wire, cur, steps, gdict, outbuf>>
       [] OTHER ->
            /\ steps' = steps + 1
            /\ UNCHANGED <<pc, wire, cur, gdict, outbuf>>
  /\ UNCHANGED <<eof, worker, pydantic, probe>>

\* exit(), sys.exit(), raise SystemExit: not an Exception, so neither
\* execute nor handle_request nor main catches it.
OpExit ==
  /\ CanStep
  /\ pc' = "exited"
  /\ UNCHANGED <<wire, eof, cur, steps, gdict, outbuf, worker, pydantic, probe>>

\* uv/ruff/ty(..., capture=False): subprocess.run lets the child inherit
\* the process's stdout, which is the pipe; when the tool is not installed
\* the helper raises RuntimeError.
OpToolNoCapture ==
  /\ CanStep
  /\ \E found \in BOOLEAN :
       IF found
       THEN /\ wire' = Write(wire, RawText(cur.pos))
            /\ steps' = steps + 1
            /\ UNCHANGED <<pc, cur, gdict, outbuf>>
       ELSE Throw(wire)
  /\ UNCHANGED <<eof, worker, pydantic, probe>>

\* uv/ruff/ty(..., capture=True): the child's output comes back as the
\* helper's return value.
OpToolCapture ==
  /\ CanStep
  /\ steps' = steps + 1
  /\ UNCHANGED <<pc, wire, eof, cur, gdict, outbuf, worker, pydantic, probe>>

\* FINAL(response)
OpFinal ==
  /\ CanStep
  /\ \E s \in StrVals : final_output' = FinalRecord(StringOf("str", s, Items(s)), "text", "")
  /\ steps' = steps + 1
  /\ UNCHANGED <<pc, wire, eof, cur, gdict, outbuf, ns_vars, ns_globals,
                 exec_count, callback_id_counter, enabled, pydantic, probe>>

\* The user code returns, `rv` being the repr of the value of the code's
\* expression ("" if it has none or the value is None). execute reconciles
\* the namespace and answers; get_var and list_vars answer.
Return(rv) ==
  /\ pc = "run"
  /\ CASE cur.method = "execute" ->
            /\ ns_vars' = UpdateVars(ns_vars, ns_globals, gdict)
            /\ ns_globals' = UpdateGlobals(ns_globals, gdict)
            /\ wire' = Write(wire, ExecResult(cur.id, FALSE, outbuf, rv, cur.pos))
       [] cur.method = "get_var" ->
            /\ wire' = Write(wire, GetVarFrame(cur.id, GetVarResult(Obj, 0, 0, FALSE), cur.pos))
            /\ UNCHANGED <<ns_vars, ns_globals>>
       [] OTHER ->
            /\ wire' = Write(wire, ListVarsFrame(cur.id, ListVarsResult(ns_vars), cur.pos))
            /\ UNCHANGED <<ns_vars, ns_globals>>
  /\ pc' = AfterResponse(cur.method)
  /\ ResetLocals
  /\ UNCHANGED <<eof, exec_count, callback_id_counter, final_output, enabled, pydantic, probe>>

\* The code was statements, or an expression whose value is None.
Finish == Return(NoText)

\* The code was an expression, or ended in one, with a value that is not
\* None: `return_value = repr(result)`.
FinishValue ==
  /\ cur.method = "execute"
  /\ \E v \in StrVals : Return(StringOf("repr", v, Items(v)))

UserCode ==
  \/ OpAssign \/ OpPrint \/ OpCallback \/ AwaitReply \/ OpRaise \/ OpExit
  \/ OpToolNoCapture \/ OpToolCapture \/ OpFinal \/ Finish

Next == Start \/ MainLoop \/ UserCode

Spec == Init /\ [][Next]_vars

\* ------------------------------------------- the namespace in detail
\* The worker under a host that sets, reads and lists variables and runs
\* code that binds, rebinds and deletes names: user names, a preloaded
\* name, an underscore name, a builtin's name; valid and invalid names.
NsStrVals == {"s1", "s2"}
NsSetVarNames == {"x", "json", "_t", "1x", ""}
NsGetVarNames == {"x", "json", "_t", "len", "q"}
NsLines ==
  {SetVarLine(i, a, v) : i \in ReqIds, a \in NsSetVarNames, v \in NsStrVals}
  \cup {Line("request", "get_var", i, a) : i \in ReqIds, a \in NsGetVarNames}

NsSetVar == SetVarOf(NsLines)
NsGetVar == GetVarOf(NsLines)
NsOpAssign == OpAssignOf(NsNames, NsStrVals)

InitNs == Init /\ ~pydantic

NextNs ==
  \/ Start \/ NsSetVar \/ NsGetVar \/ ListVars \/ BeginExecute
  \/ NsOpAssign \/ OpDelete \/ OpRaise \/ Finish

SpecNs == InitNs /\ [][NextNs]_vars

\* -------------------------------------------- get_var as a function
\* One call of REPL.get_var on a stored value, for every value, start, end
\* and as_repr of a bounded set.
NoResult == [raised |-> FALSE, value |-> NoText, length |-> 0, type |-> ""]
GetVarCalls ==
  {[fn |-> "get_var", v |-> v, start |-> a, end |-> b, as_repr |-> r,
    done |-> FALSE, out |-> NoResult] :
     v \in PyValues \ {Obj}, a \in -MaxIndex..MaxIndex, b \in -MaxIndex..MaxIndex,
     r \in BOOLEAN}

InitGetVar == InitWorker /\ probe \in GetVarCalls

CallGetVar ==
  /\ probe.fn = "get_var" /\ ~probe.done
  /\ probe' = [probe EXCEPT
                 !.done = TRUE,
                 !.out = GetVarResult(probe.v, probe.start, probe.end, probe.as_repr)]
  /\ UNCHANGED <<pc, wire, eof, cur, steps, gdict, outbuf, worker, pydantic>>

NextGetVar == CallGetVar

SpecGetVar == InitGetVar /\ [][NextGetVar]_vars

\* ------------------------------------------ the evaluator in detail
\* The worker under a host that sends execute requests only, the code
\* printing, raising, and returning with or without a value.
NextEval ==
  \/ Start \/ BeginExecute
  \/ OpPrint \/ OpRaise \/ OpRaiseUnprintable \/ Finish \/ FinishValue

SpecEval == Init /\ [][NextEval]_vars

\* ------------------------------------------- the helpers in detail
\* The worker under a host that sends execute requests, the code calling
\* the callback helpers and switching their subsystems off and on, the
\* host answering a callback with a result, an error, a line that is no
\* JSON, a request, or by closing the pipe.
LlmHelpers == {"llm_call", "llm_batch", "summarize"}
MemoryHelpers ==
  {"memory_query", "memory_add_fact", "memory_add_experience", "memory_get_context",
   "memory_relate"}
VerifyHelpers == {"verify_claim", "verify_claims", "audit_trace"}
Helpers == LlmHelpers \cup MemoryHelpers \cup VerifyHelpers

\* Helpers that all test the callbacks flag.
Subsystem_callbacksOnly(h) == "callbacks"

\* The flag a helper tests before it does anything else: _callback_enabled,
\* _memory_enabled or _hallucination_enabled (summarize goes through
\* llm_call).
Subsystem(h) ==
  IF h \in LlmHelpers THEN "callbacks"
  ELSE IF h \in MemoryHelpers THEN "memory"
  ELSE "hallucination"

\* The first argument of the helper's _make_callback call.
CallbackType(h) ==
  CASE h = "summarize" -> "llm_call"
    [] h \in VerifyHelpers -> "plugin_call"
    [] OTHER -> h

\* plugin_call's "function" parameter.
PluginFunction(h) ==
  CASE h = "verify_claim" -> "hallucination_verify_claim"
    [] h = "verify_claims" -> "hallucination_verify_claims"
    [] h = "audit_trace" -> "hallucination_audit_trace"
    [] OTHER -> ""

\* Helpers that decode the reply's result (json.loads, MemoryNode(n)), which
\* can raise inside the helper's try block.
ParsesResult(h) == h \in {"memory_query", "memory_get_context"} \cup VerifyHelpers

\* llm_batch is called with up to MaxPrompts prompts.
MaxPrompts == 2
PromptNames == <<"p1", "p2", "p3", "p4">>
Contexts == {"c1", "c2"}

\* A value a helper returns: a string, a list or a dict built by the
\* helper (`mark` telling which, `entries` what it is built from), or what
\* the host's reply carried.
Ret(kind, mark, entries) == [kind |-> kind, mark |-> mark, entries |-> entries]
NoRet == Ret("", "", <<>>)
HostResult == Ret("host", "result", <<>>)

\* One call of a helper: its arguments, how far llm_batch's fallback has
\* come (k of the prompts asked one by one, their answers in acc), and
\* what the call returned.
Call(h, prompts, contexts) ==
  [fn |-> h, prompts |-> prompts, contexts |-> contexts, k |-> 0, acc |-> <<>>,
   done |-> FALSE, out |-> NoRet]

HelperCalls ==
  {Call("llm_call", <<"p1">>, <<c>>) : c \in Contexts}
  \cup {Call("summarize", <<"Summarize">>, <<c>>) : c \in {"c1"}}
  \cup UNION {{Call("llm_batch", [i \in 1..n |-> PromptNames[i]], cs) : cs \in [1..n -> Contexts]} :
                n \in 0..MaxPrompts}
  \cup {Call(h, <<>>, <<>>) : h \in MemoryHelpers \cup VerifyHelpers}

\* What a helper returns while its subsystem is disabled.
DisabledReturn(h, prompts, contexts) ==
  CASE h \in {"llm_call", "summarize"} -> Ret("str", "LLM_CALL", <<prompts[1], contexts[1]>>)
    [] h = "llm_batch" ->
         Ret("list", "", [i \in 1..Len(prompts) |-> Ret("str", "LLM_BATCH", <<prompts[i]>>)])
    [] h \in {"memory_query", "memory_get_context"} -> Ret("list", "", <<>>)
    [] h \in MemoryHelpers -> Ret("str", "", <<>>)
    [] h = "verify_claim" -> Ret("dict", "unverifiable", <<"disabled">>)
    [] h = "verify_claims" -> Ret("dict", "no claims", <<>>)
    [] OTHER -> Ret("dict", "valid", <<>>)

\* Every helper answering a failed callback as llm_call does.
ErrorReturn_llmPlaceholder(h) == Ret("str", "LLM_CALL_ERROR", <<>>)

\* What a helper other than llm_batch returns from its `except Exception`.
ErrorReturn(h) ==
  CASE h \in {"llm_call", "summarize"} -> Ret("str", "LLM_CALL_ERROR", <<>>)
    [] h \in {"memory_query", "memory_get_context"} -> Ret("list", "", <<>>)
    [] h \in MemoryHelpers -> Ret("str", "", <<>>)
    [] h = "verify_claim" -> Ret("dict", "unverifiable", <<"error">>)
    [] h = "verify_claims" -> Ret("dict", "no claims", <<"error">>)
    [] OTHER -> Ret("dict", "unverifiable", <<"error">>)

\* What a helper returns from a reply that has no "result"/"results" key:
\* the default of its response.get.
DefaultReturn(h, n) ==
  CASE h \in {"llm_call", "summarize"} -> Ret("str", "", <<>>)
    [] h = "llm_batch" -> Ret("list", "", [i \in 1..n |-> Ret("str", "", <<>>)])
    [] h \in {"memory_query", "memory_get_context"} -> Ret("list", "", <<>>)
    [] h \in MemoryHelpers -> Ret("str", "", <<>>)
    [] OTHER -> Ret("dict", "", <<>>)

\* A callback that takes whatever line it reads for a reply without error.
ReplySucceeds_anyLine(l) == TRUE

\* _make_callback returns the reply: the line is a JSON object whose
\* "error" is missing or empty.
ReplySucceeds(l) == l.kind \in {"reply", "request"} /\ ~(l.kind = "reply" /\ l.body = "error")

\* What a helper other than llm_batch in fallback returns once
\* _make_callback has read line l, `parses` telling whether the result
\* decodes.
HelperReturn(h, l, n, parses) ==
  IF ~ReplySucceeds(l) \/ (ParsesResult(h) /\ ~parses) THEN ErrorReturn(h)
  ELSE IF l.kind = "reply" THEN HostResult
  ELSE DefaultReturn(h, n)

\* {"callback": "llm_call", "callback_id": n, "params": {"prompt": p, "context": c, ...}}
LlmCallFrame(n, p, c, req) == [CallbackFrame("llm_call", n, req) EXCEPT !.arg = p, !.val = c]

\* The frame of the helper's own callback.
HelperFrame(c, n, req) ==
  CASE c.fn \in {"llm_call", "summarize"} -> LlmCallFrame(n, c.prompts[1], c.contexts[1], req)
    [] c.fn \in VerifyHelpers ->
         [CallbackFrame("plugin_call", n, req) EXCEPT !.arg = PluginFunction(c.fn)]
    [] OTHER -> CallbackFrame(CallbackType(c.fn), n, req)

\* The lines the host answers a callback with.
CallbackAnswers ==
  ReplyLines \cup {Line("junk", "", 0, "")} \cup {Line("request", "status", i, "") : i \in ReqIds}

\* llm_batch(prompts) without contexts: `contexts=None`.
NoContexts == <<NoneVal>>

\* llm_batch: `if contexts is None: contexts = [""] * len(prompts)`
ContextsOf(c) ==
  IF c.contexts = NoContexts THEN [i \in 1..Len(c.prompts) |-> ""] ELSE c.contexts

\* An llm_batch that does not compare the lengths.
ArgumentsOk_unchecked(c) == TRUE

\* llm_batch: `if len(prompts) != len(contexts): raise ValueError(...)`,
\* before it tests _callback_enabled and outside its try block.
ArgumentsOk(c) == c.fn = "llm_batch" => Len(c.prompts) = Len(ContextsOf(c))

\* A helper is called with a call of C: llm_batch's check of its
\* arguments, whose ValueError the calling code catches or not; the
\* disabled branch; or the helper up to _make_callback's readline.
OpHelperOf(C) ==
  /\ CanStep /\ cur.method = "execute"
  /\ \E c \in C, caught \in BOOLEAN :
       LET call == [c EXCEPT !.contexts = ContextsOf(c)] IN
       /\ caught => ~ArgumentsOk(c)
       /\ IF ~ArgumentsOk(c)
          THEN /\ probe' = [c EXCEPT !.done = TRUE, !.out = Ret("raise", "ValueError", <<>>)]
               /\ UNCHANGED callback_id_counter
               /\ IF caught
                  THEN /\ steps' = steps + 1
                       /\ UNCHANGED <<pc, wire, cur, gdict, outbuf>>
                  ELSE Raise(wire, "ValueError")
          ELSE /\ IF ~enabled[Subsystem(c.fn)]
                  THEN /\ probe' = [call EXCEPT !.done = TRUE,
                                                !.out = DisabledReturn(c.fn, c.prompts,
                                                                       call.contexts)]
                       /\ UNCHANGED <<pc, wire, callback_id_counter>>
                  ELSE /\ callback_id_counter' = NextCallbackId(callback_id_counter)
                       /\ wire' = Write(wire, HelperFrame(call, callback_id_counter', cur.pos))
                       /\ pc' = "await"
                       /\ probe' = call
               /\ steps' = steps + 1
               /\ UNCHANGED <<cur, gdict, outbuf>>
  /\ UNCHANGED <<eof, ns_vars, ns_globals, exec_count, final_output, enabled, pydantic>>

OpHelper == OpHelperOf(HelperCalls)

\* A fallback that asks the prompts last to first.
FallbackIndex_reversed(k, n) == n + 1 - k

\* llm_batch's fallback: the k-th llm_call is for the k-th pair of
\* zip(prompts, contexts).
FallbackIndex(k, n) == k

\* The helper goes on in llm_batch's fallback with its k-th llm_call, up to
\* that call's readline, `w` being the pipe so far.
NextFallback(w, k, acc) ==
  LET i == FallbackIndex(k, Len(probe.prompts)) IN
  /\ callback_id_counter' = NextCallbackId(callback_id_counter)
  /\ wire' = Write(w, LlmCallFrame(callback_id_counter', probe.prompts[i], probe.contexts[i],
                                   cur.pos))
  /\ probe' = [probe EXCEPT !.k = k, !.acc = acc]
  /\ UNCHANGED pc

\* The helper returns `out` to the user code.
HelperDone(w, out) ==
  /\ wire' = w
  /\ probe' = [probe EXCEPT !.done = TRUE, !.out = out]
  /\ pc' = "run"
  /\ UNCHANGED callback_id_counter

\* _make_callback from readline on and the helper's handling of what it
\* read: the next line, whatever it is, or EOF, is the reply. llm_batch
\* whose own callback failed asks its prompts one by one through llm_call.
HelperReply ==
  /\ pc = "await" /\ probe.fn \in Helpers /\ ~probe.done
  /\ \E l \in CallbackAnswers \cup {EofLine}, parses \in BOOLEAN :
       /\ IF l = EofLine THEN eof' = TRUE ELSE CanSend /\ UNCHANGED eof
       /\ ~parses => (ParsesResult(probe.fn) /\ ReplySucceeds(l))
       /\ LET w == Append(wire, InEv(l, "callback"))
              n == Len(probe.prompts)
              entry == IF ~ReplySucceeds(l) THEN ErrorReturn("llm_call")
                       ELSE IF l.kind = "reply" THEN HostResult
                       ELSE DefaultReturn("llm_call", 1)
          IN
          CASE probe.fn = "llm_batch" /\ probe.k = 0 /\ ~ReplySucceeds(l) ->
                 IF n = 0 THEN HelperDone(w, Ret("list", "", <<>>))
                 ELSE NextFallback(w, 1, <<>>)
            [] probe.fn = "llm_batch" /\ probe.k > 0 ->
                 IF probe.k < n THEN NextFallback(w, probe.k + 1, Append(probe.acc, entry))
                 ELSE HelperDone(w, Ret("list", "", Append(probe.acc, entry)))
            [] OTHER -> HelperDone(w, HelperReturn(probe.fn, l, n, parses))
  /\ UNCHANGED <<cur, steps, gdict, outbuf, ns_vars, ns_globals, exec_count, final_output,
                 enabled, pydantic>>

\* disable_callbacks(), disable_memory(), disable_hallucination_detection()
OpDisable ==
  /\ CanStep /\ cur.method = "execute"
  /\ \E sub \in DOMAIN enabled : enabled' = [enabled EXCEPT ![sub] = FALSE]
  /\ steps' = steps + 1
  /\ UNCHANGED <<pc, wire, eof, cur, gdict, outbuf, ns_vars, ns_globals, exec_count,
                 callback_id_counter, final_output, pydantic, probe>>

\* enable_callbacks(), enable_memory(), enable_hallucination_detection()
OpEnable ==
  /\ CanStep /\ cur.method = "execute"
  /\ \E sub \in DOMAIN enabled : enabled' = [enabled EXCEPT ![sub] = TRUE]
  /\ steps' = steps + 1
  /\ UNCHANGED <<pc, wire, eof, cur, gdict, outbuf, ns_vars, ns_globals, exec_count,
                 callback_id_counter, final_output, pydantic, probe>>

InitCb == Init /\ ~pydantic

NextCb ==
  \/ Start \/ BeginExecute
  \/ OpHelper \/ HelperReply \/ OpDisable \/ OpEnable \/ OpRaise \/ Finish

SpecCb == InitCb /\ [][NextCb]_vars

\* llm_batch called with zero to MaxPrompts prompts and with no contexts
\* or zero to MaxPrompts contexts, callbacks being enabled or disabled.
BatchCalls ==
  {Call("llm_batch", [i \in 1..n |-> PromptNames[i]], cs) :
     n \in 0..MaxPrompts, cs \in {NoContexts} \cup {[i \in 1..m |-> "c1"] : m \in 0..MaxPrompts}}

OpBatch == OpHelperOf(BatchCalls)

\* disable_callbacks()
OpDisableCallbacks ==
  /\ enabled.callbacks
  /\ OpDisable /\ enabled' = [enabled EXCEPT !.callbacks = FALSE]

NextBatch ==
  \/ Start \/ BeginExecute \/ Status
  \/ OpBatch \/ HelperReply \/ OpDisableCallbacks \/ Finish

SpecBatch == InitCb /\ [][NextBatch]_vars

\* The same helpers under a host that also sends status requests and lines
\* that are no JSON while the worker is idle, the code calling helpers and
\* returning.
NextReply ==
  \/ Start \/ BeginExecute \/ Status \/ ParseError
  \/ OpHelper \/ HelperReply \/ Finish

SpecReply == InitCb /\ [][NextReply]_vars

\* ------------------------------------------------ the CPU signal
\* The worker under a host that sends execute and status requests and
\* answers callbacks, SIGXCPU being delivered at most once per request.
\* What _handle_cpu_exceeded raises, as execute's error field names it.
CpuExceeded == "RuntimeError: CPU time limit exceeded"

\* SIGXCPU is delivered: _handle_cpu_exceeded raises RuntimeError in the
\* main thread, wherever that is. In main (blocked in `for line in
\* sys.stdin`, or between two requests) nothing catches it. In user code
\* execute's `except Exception` reports it. Inside a callback helper, blocked
\* in readline or not, the helper's own `except Exception` takes it for a
\* failed callback: the helper returns its placeholder and the code goes on.
CpuSignal ==
  /\ ~cur.sig
  /\ CASE pc = "idle" ->
            /\ pc' = "crashed"
            /\ UNCHANGED <<wire, cur, steps, gdict, outbuf>>
       [] pc = "await" ->
            /\ pc' = "run"
            /\ cur' = [cur EXCEPT !.sig = TRUE]
            /\ UNCHANGED <<wire, steps, gdict, outbuf>>
       [] CanStep /\ cur.method = "execute" ->
            \E inHelper \in BOOLEAN :
              IF inHelper
              THEN /\ cur' = [cur EXCEPT !.sig = TRUE]
                   /\ steps' = steps + 1
                   /\ UNCHANGED <<pc, wire, gdict, outbuf>>
              ELSE Raise(wire, CpuExceeded)
       [] OTHER -> FALSE
  /\ UNCHANGED <<eof, worker, pydantic, probe>>

NextSig ==
  \/ Start \/ BeginExecute \/ Status \/ MethodNotFound
  \/ OpPrint \/ OpCallback \/ AwaitReply \/ Finish
  \/ CpuSignal

SpecSig == Init /\ [][NextSig]_vars

\* ------------------------------------------- the forms of code
\* The worker under a host that sends code of each form execute tells
\* apart: an expression (parses in eval mode), a block (exec mode) that
\* ends in an expression statement, and a block that does not.
\* The expressions: a string literal, a list display, None, a call of
\* print, a call of llm_call, next(it) for an iterator with one element
\* left, a division by zero, and an assignment expression that binds x to
\* the next element of an iterator over "s1", "s2".
Exprs ==
  {"'s1'", "[p, q, r]", "None", "print('a')", "llm_call('hi')", "next(it)", "1/0",
   "(x := next(it2))"}

\* The value of the expression when its evaluation returns.
ExprValue(e) ==
  CASE e = "'s1'" -> "s1"
    [] e = "[p, q, r]" -> ListVal
    [] e = "llm_call('hi')" -> "abc"
    [] e = "next(it)" -> IntVal
    [] e = "(x := next(it2))" -> "s1"
    [] OTHER -> NoneVal

\* The value of the expression when its second evaluation returns.
TailValue(e) == IF e = "(x := next(it2))" THEN "s2" ELSE ExprValue(e)

\* The n-th evaluation of the expression raises.
ExprRaises(e, n) == e = "1/0" \/ (e = "next(it)" /\ n > 1)

\* A return_value made with str().
ReturnValueOf_str(v) == IF v = NoneVal THEN NoText ELSE StringOf("str", v, Items(v))

\* execute: `if result is not None: return_value = repr(result)`
ReturnValueOf(v) == IF v = NoneVal THEN NoText ELSE StringOf("repr", v, Items(v))

\* An execute that evaluates the last statement of a block once.
EvalsOf_once(form) == 1

\* How often execute evaluates the expression: once as the whole code,
\* twice at the end of a block (inside exec, and again for return_value).
EvalsOf(form) == IF form = "block_expr" THEN 2 ELSE 1

\* A failure of the separate evaluation reported as the evaluation's error.
TailFailed_reported(w) == Throw(w)

\* The separate evaluation of a block's last statement raises: `except
\* Exception: pass`, and execute answers with what it has.
TailFailed(w) ==
  /\ wire' = Write(w, ExecResult(cur.id, FALSE, outbuf, NoText, cur.pos))
  /\ pc' = AfterResponse(cur.method)
  /\ ResetLocals

FormLines ==
  {[Line("request", "execute", i, f) EXCEPT !.val = e] :
     i \in ReqIds, f \in {"expr", "block_expr"}, e \in Exprs}
  \cup {Line("request", "execute", i, f) : i \in ReqIds, f \in {"block", "bad_syntax"}}

FormBeginExecute == BeginExecuteOf(FormLines)

\* A statement of a block before its last one.
BlockAssign ==
  /\ cur.form \in {"block", "block_expr"} /\ cur.evals = 0
  /\ OpAssign

\* One evaluation of the expression begins: eval of the whole code, or the
\* last statement inside exec, or - after exec has returned and
\* update_from_exec has run - the separate eval of the last statement,
\* whose exceptions are dropped (`except Exception: pass`).
EvalExpr ==
  /\ pc = "run" /\ cur.method = "execute"
  /\ cur.form \in {"expr", "block_expr"} /\ cur.evals < EvalsOf(cur.form)
  /\ LET n == cur.evals + 1
         again == n > 1
         c == [cur EXCEPT !.evals = n]
     IN
     /\ ns_vars' = IF again THEN UpdateVars(ns_vars, ns_globals, gdict) ELSE ns_vars
     /\ ns_globals' = IF again THEN UpdateGlobals(ns_globals, gdict) ELSE ns_globals
     /\ CASE ExprRaises(cur.expr, n) /\ ~again ->
               /\ Throw(wire)
               /\ UNCHANGED callback_id_counter
          [] ExprRaises(cur.expr, n) /\ again ->
               /\ TailFailed(wire)
               /\ UNCHANGED callback_id_counter
          [] cur.expr = "llm_call('hi')" ->
               /\ callback_id_counter' = NextCallbackId(callback_id_counter)
               /\ wire' = Write(wire, LlmCallFrame(callback_id_counter', "hi", "", cur.pos))
               /\ pc' = "await"
               /\ cur' = c
               /\ UNCHANGED <<steps, gdict, outbuf>>
          [] cur.expr = "print('a')" ->
               /\ outbuf' = TRUE
               /\ cur' = c
               /\ UNCHANGED <<pc, wire, steps, gdict, callback_id_counter>>
          [] cur.expr = "(x := next(it2))" ->
               /\ gdict' = [gdict EXCEPT !["x"] = IF again THEN TailValue(cur.expr)
                                                  ELSE ExprValue(cur.expr)]
               /\ cur' = c
               /\ UNCHANGED <<pc, wire, steps, outbuf, callback_id_counter>>
          [] OTHER ->
               /\ cur' = c
               /\ UNCHANGED <<pc, wire, steps, gdict, outbuf, callback_id_counter>>
  /\ UNCHANGED <<eof, exec_count, final_output, enabled, pydantic, probe>>

\* eval or exec has returned: an expression's value becomes return_value,
\* a block that ends in no expression has none.
ExprReturn ==
  /\ cur.method = "execute"
  /\ \/ cur.form = "expr" /\ cur.evals = 1 /\ Return(ReturnValueOf(ExprValue(cur.expr)))
     \/ cur.form = "block" /\ Return(NoText)

\* The separate eval of a block's last statement has returned.
TailReturn ==
  /\ pc = "run" /\ cur.method = "execute"
  /\ cur.form = "block_expr" /\ cur.evals = EvalsOf(cur.form)
  /\ wire' = Write(wire, ExecResult(cur.id, FALSE, outbuf, ReturnValueOf(TailValue(cur.expr)),
                                    cur.pos))
  /\ pc' = AfterResponse(cur.method)
  /\ ResetLocals
  /\ UNCHANGED <<eof, worker, pydantic, probe>>

NextForm ==
  \/ Start \/ FormBeginExecute
  \/ BlockAssign \/ EvalExpr \/ AwaitReply \/ ExprReturn \/ TailReturn

SpecForm == Init /\ [][NextForm]_vars

\* ---------------------------------- the final output in detail
\* The worker under a host that sends execute, set_var, get_var, list_vars
\* and status requests, the code calling the FINAL family with any
\* arguments, clearing the slot, asking whether it is set, and raising.
FinalArgs == {"s1", "", IntVal}
\* output_type is any string: the four the comment in FinalOutput lists,
\* and another one.
OutputTypes == {"text", "json", "code", "markdown", "html"}
Languages == {"python", "go"}
FinalVarNames == {"x", "json", "q"}

\* A call of one of the FINAL family and its arguments.
FinalCall(fn, arg, type, lang) == [fn |-> fn, arg |-> arg, type |-> type, lang |-> lang]

\* A has_final_output that tests the content for truth.
HasFinalOutput_truthy(f) == f # NoFinal /\ f.content.items # <<>>

\* has_final_output: `_final_output is not None`
HasFinalOutput(f) == f # NoFinal

\* FINAL(response, output_type): FinalOutput(str(response), output_type)
OpFinalTyped ==
  /\ CanStep /\ cur.method = "execute"
  /\ \E v \in FinalArgs, t \in OutputTypes :
       /\ final_output' = FinalRecord(StringOf("str", v, Items(v)), t, "")
       /\ probe' = FinalCall("FINAL", v, t, "")
  /\ steps' = steps + 1
  /\ UNCHANGED <<pc, wire, eof, cur, gdict, outbuf, ns_vars, ns_globals,
                 exec_count, callback_id_counter, enabled, pydantic>>

\* FINAL_VAR(variable_name): the binding of the caller's frame, else
\* NameError; FINAL(str(value)).
OpFinalVar ==
  /\ CanStep /\ cur.method = "execute"
  /\ \E n \in FinalVarNames :
       IF n \in NsNames /\ gdict[n] # Absent
       THEN /\ final_output' = FinalRecord(StringOf("str", gdict[n], Items(gdict[n])), "text", "")
            /\ probe' = FinalCall("FINAL_VAR", gdict[n], "", "")
            /\ steps' = steps + 1
            /\ UNCHANGED <<pc, wire, cur, gdict, outbuf>>
       ELSE /\ Throw(wire)
            /\ UNCHANGED <<final_output, probe>>
  /\ UNCHANGED <<eof, ns_vars, ns_globals, exec_count, callback_id_counter, enabled, pydantic>>

\* FINAL_JSON(obj): FinalOutput(json.dumps(obj, indent=indent, default=str), "json")
OpFinalJson ==
  /\ CanStep /\ cur.method = "execute"
  /\ \E v \in FinalArgs :
       /\ final_output' = FinalRecord(StringOf("json", v, Items(v)), "json", "")
       /\ probe' = FinalCall("FINAL_JSON", v, "", "")
  /\ steps' = steps + 1
  /\ UNCHANGED <<pc, wire, eof, cur, gdict, outbuf, ns_vars, ns_globals,
                 exec_count, callback_id_counter, enabled, pydantic>>

\* FINAL_CODE(code, language): FinalOutput(code, "code", {"language": language})
OpFinalCode ==
  /\ CanStep /\ cur.method = "execute"
  /\ \E v \in FinalArgs, l \in Languages :
       /\ final_output' = FinalRecord(StringOf("", v, Items(v)), "code", l)
       /\ probe' = FinalCall("FINAL_CODE", v, "", l)
  /\ steps' = steps + 1
  /\ UNCHANGED <<pc, wire, eof, cur, gdict, outbuf, ns_vars, ns_globals,
                 exec_count, callback_id_counter, enabled, pydantic>>

\* clear_final_output()
OpClearFinal ==
  /\ CanStep /\ cur.method = "execute"
  /\ final_output' = NoFinal
  /\ probe' = FinalCall("clear_final_output", "", "", "")
  /\ steps' = steps + 1
  /\ UNCHANGED <<pc, wire, eof, cur, gdict, outbuf, ns_vars, ns_globals,
                 exec_count, callback_id_counter, enabled, pydantic>>

\* has_final_output()
OpHasFinal ==
  /\ CanStep /\ cur.method = "execute"
  /\ probe' = [fn |-> "has_final_output", out |-> HasFinalOutput(final_output)]
  /\ steps' = steps + 1
  /\ UNCHANGED <<pc, wire, eof, cur, gdict, outbuf, worker, pydantic>>

NextFinal ==
  \/ Start \/ BeginExecute \/ Status \/ SetVar \/ GetVar \/ ListVars
  \/ OpAssign \/ OpRaise \/ Finish
  \/ OpFinalTyped \/ OpFinalVar \/ OpFinalJson \/ OpFinalCode \/ OpClearFinal \/ OpHasFinal

SpecFinal == InitCb /\ [][NextFinal]_vars

\* ------------------------------------- llm_call and FINAL in detail
\* The worker under a host that sends execute requests whose code is one
\* expression, llm_call(...) alone or inside FINAL(...), with one, two or
\* three arguments, and that answers the callback with a result of any JSON
\* type, with an object that has no result, with an error, with a line that
\* is no JSON or no object, or by closing the pipe.
ResultValues == {"s1", "", NoneVal, IntVal, ListVal}
RoundExprs ==
  {"llm_call('hi')", "FINAL(llm_call('hi'))", "FINAL(llm_call('hi', 'c1'))",
   "FINAL(llm_call('hi', 'c1', 'fast'))"}

\* The arguments the expression passes to llm_call, and whether it passes
\* what llm_call returns to FINAL.
LlmArgs(e) ==
  CASE e = "FINAL(llm_call('hi', 'c1'))" -> <<"hi", "c1">>
    [] e = "FINAL(llm_call('hi', 'c1', 'fast'))" -> <<"hi", "c1", "fast">>
    [] OTHER -> <<"hi">>
CallsFinal(e) == e # "llm_call('hi')"

\* def llm_call(prompt, context="", model="auto")
LlmCallParams(args) ==
  [prompt |-> args[1],
   context |-> IF Len(args) >= 2 THEN args[2] ELSE "",
   model |-> IF Len(args) >= 3 THEN args[3] ELSE "auto"]

\* {"callback": "llm_call", "callback_id": n,
\*  "params": {"prompt": ..., "context": ..., "model": ...}}
LlmCallRequest(n, params, req) ==
  [CallbackFrame("llm_call", n, req) EXCEPT
     !.arg = params.prompt, !.val = params.context, !.opt = [model |-> params.model]]

RoundLines ==
  {[Line("request", "execute", i, "expr") EXCEPT !.val = e] : i \in ReqIds, e \in RoundExprs}

\* {"result": v}
ResultReply(v) == [Line("reply", "result", 0, "") EXCEPT !.val = v]
RoundAnswers ==
  {ResultReply(v) : v \in ResultValues}
  \cup {Line("reply", "error", 0, ""), Line("reply", "empty", 0, ""),
        Line("junk", "", 0, ""), Line("nonobj", "", 0, "")}

\* An llm_call that returns the string form of the result.
LlmCallResult_str(l) ==
  IF ~ReplySucceeds(l) THEN LlmCallError
  ELSE IF l.kind = "reply" /\ l.body = "result" /\ l.val # NoneVal THEN l.val
  ELSE ""

\* llm_call once _make_callback has read line l: `response.get("result", "")`
\* of the reply, or the placeholder of its `except Exception`.
LlmCallResult(l) ==
  IF ~ReplySucceeds(l) THEN LlmCallError
  ELSE IF l.kind = "reply" /\ l.body = "result" THEN l.val
  ELSE ""

RoundBeginExecute == BeginExecuteOf(RoundLines)

\* llm_call(...) with callbacks enabled, up to _make_callback's readline
LlmCall ==
  /\ pc = "run" /\ cur.method = "execute" /\ cur.expr \in RoundExprs /\ cur.evals = 0
  /\ LET params == LlmCallParams(LlmArgs(cur.expr)) IN
       /\ callback_id_counter' = NextCallbackId(callback_id_counter)
       /\ wire' = Write(wire, LlmCallRequest(callback_id_counter', params, cur.pos))
       /\ probe' = [fn |-> "llm_call", params |-> params, done |-> FALSE, out |-> ""]
  /\ pc' = "await"
  /\ cur' = [cur EXCEPT !.evals = 1]
  /\ UNCHANGED <<eof, steps, gdict, outbuf, ns_vars, ns_globals, exec_count, final_output,
                 enabled, pydantic>>

\* _make_callback from readline on, and llm_call's return
LlmReply ==
  /\ pc = "await" /\ probe.fn = "llm_call" /\ ~probe.done
  /\ \E l \in RoundAnswers \cup {EofLine} :
       /\ IF l = EofLine THEN eof' = TRUE ELSE CanSend /\ UNCHANGED eof
       /\ wire' = Append(wire, InEv(l, "callback"))
       /\ probe' = [probe EXCEPT !.done = TRUE, !.out = LlmCallResult(l)]
  /\ pc' = "run"
  /\ UNCHANGED <<cur, steps, gdict, outbuf, worker, pydantic>>

\* FINAL(response) on what llm_call returned: FinalOutput(str(response)),
\* `return response`
FinalOfResult ==
  /\ pc = "run" /\ cur.method = "execute" /\ cur.expr \in RoundExprs /\ CallsFinal(cur.expr)
  /\ cur.evals = 1 /\ probe.fn = "llm_call" /\ probe.done /\ steps = 0
  /\ final_output' = FinalRecord(StringOf("str", probe.out, Items(probe.out)), "text", "")
  /\ steps' = 1
  /\ UNCHANGED <<pc, wire, eof, cur, gdict, outbuf, ns_vars, ns_globals, exec_count,
                 callback_id_counter, enabled, pydantic, probe>>

\* eval has returned the value of the expression
RoundReturn ==
  /\ cur.method = "execute" /\ cur.expr \in RoundExprs
  /\ cur.evals = 1 /\ probe.fn = "llm_call" /\ probe.done
  /\ steps = (IF CallsFinal(cur.expr) THEN 1 ELSE 0)
  /\ Return(ReturnValueOf(probe.out))

NextRound == Start \/ RoundBeginExecute \/ LlmCall \/ LlmReply \/ FinalOfResult \/ RoundReturn

SpecRound == InitCb /\ [][NextRound]_vars

\* ------------------------------------------------- termination
\* The worker under a host that, once it has nothing more to send, closes
\* the pipe: the worker is one sequential process that takes its next step
\* whenever it has one, every piece of user code comes to an end, and the
\* read that finds the pipe closed happens.
SpecLive == Init /\ [][Next]_vars /\ WF_vars(Next)

\* ===================================================== properties
\* Readings of the pipe history.
Idx == 1..Len(wire)

\* A line the main loop consumed and passed to handle_request.
IsCommand(e) == e.dir = "in" /\ e.by = "main" /\ e.kind \in {"request", "reply"}
\* A well-formed request line consumed by the main loop.
IsRequest(e) == e.dir = "in" /\ e.by = "main" /\ e.kind = "request"
\* A line consumed by _make_callback.
IsCallbackReply(e) == e.dir = "in" /\ e.by = "callback"
IsReady(e) == e.dir = "out" /\ e.kind = "result" /\ e.body \in {"ready", "ready,pydantic"}
IsResponse(e) == e.dir = "out" /\ e.kind \in {"result", "error"} /\ ~IsReady(e)
IsCallback(e) == e.dir = "out" /\ e.kind = "callback"
IsParseErrorFrame(e) == e.dir = "out" /\ e.kind = "error" /\ e.code = -32700

\* A request is in flight: the worker is inside its handler.
InFlight == pc \in {"run", "await"}

\* The requests read so far and the responses to requests written so far.
RequestsRead == SelectSeq(wire, LAMBDA e : IsCommand(e))
ResponsesWritten == SelectSeq(wire, LAMBDA e : IsResponse(e) /\ ~IsParseErrorFrame(e))

\* C1: for any sequence of well-formed request lines (execute code that
\* issues callbacks, raises or exits included) the worker writes exactly
\* one response frame per request, carrying the request's id: whenever the
\* worker is not inside a handler, the k-th request read has the k-th
\* response, with the same id.
C1_OneResponsePerRequest ==
  /\ Len(ResponsesWritten) <= Len(RequestsRead)
  /\ \A k \in 1..Len(ResponsesWritten) : ResponsesWritten[k].id = RequestsRead[k].id
  /\ ~InFlight => Len(ResponsesWritten) = Len(RequestsRead)

\* C2: command responses are written in the order their requests were
\* read: of two response frames, the earlier one answers the earlier line,
\* and every response follows the line it answers.
C2_ResponsesInRequestOrder ==
  /\ \A i \in Idx : IsResponse(wire[i]) =>
        /\ wire[i].req \in 1..(i - 1)
        /\ wire[wire[i].req].dir = "in" /\ wire[wire[i].req].by = "main"
  /\ \A i \in Idx, j \in Idx :
        (i < j /\ IsResponse(wire[i]) /\ IsResponse(wire[j])) => wire[i].req < wire[j].req

\* Two requests were read and both were answered.
C2_Witness ==
  \E i \in Idx, j \in Idx :
    /\ i < j /\ IsResponse(wire[i]) /\ IsResponse(wire[j])
    /\ IsRequest(wire[wire[i].req]) /\ IsRequest(wire[wire[j].req])

CallbacksWritten == SelectSeq(wire, IsCallback)

C4_CallbacksOnlyDuringExecute ==
  \A i \in Idx : IsCallback(wire[i]) =>
    \E j \in 1..(i - 1) :
      /\ IsRequest(wire[j]) /\ wire[j].body = "execute"
      /\ \A k \in (j + 1)..(i - 1) : ~IsResponse(wire[k]) /\ ~IsCommand(wire[k])

\* C5: while a callback is outstanding the worker is blocked: a callback
\* frame is followed by nothing but one line read by _make_callback, that
\* line is the reply whatever its content, and it is never dispatched as
\* a command (no response answers it).
C5_BlockedWhileCallbackOutstanding ==
  /\ \A i \in Idx : IsCallback(wire[i]) =>
        IF i = Len(wire) THEN pc = "await" ELSE IsCallbackReply(wire[i + 1])
  /\ \A i \in Idx : IsCallbackReply(wire[i]) =>
        /\ i > 1 /\ IsCallback(wire[i - 1])
        /\ \A j \in Idx : IsResponse(wire[j]) => wire[j].req # i
  /\ pc = "await" => (wire # <<>> /\ IsCallback(wire[Len(wire)]))

\* A line shaped like a shutdown request arrived while a callback was
\* outstanding, and the worker is back in its main loop.
C5_Witness ==
  /\ pc = "idle"
  /\ \E i \in Idx :
       /\ IsCallbackReply(wire[i])
       /\ wire[i].kind = "request" /\ wire[i].body = "shutdown"

\* C6: every line on the host-facing pipe is a complete frame: text that
\* user code or a helper it calls produces (print, stderr, uv/ruff/ty in
\* either capture mode) never appears on the pipe.
C6_OnlyFramesOnPipe ==
  \A i \in Idx : wire[i].dir = "out" => wire[i].kind \in {"result", "error", "callback"}

\* C7: the first thing on the pipe is the ready frame {id:0, result:{ready:
\* true, pydantic:<bool>}}, written once, before any line is read and
\* before any response or callback frame.
C7_ReadyFrameFirstAndOnce ==
  /\ pc = "start" <=> wire = <<>>
  /\ wire # <<>> =>
       /\ wire[1].dir = "out" /\ wire[1].kind = "result" /\ wire[1].id = 0
       /\ wire[1].body = (IF pydantic THEN "ready,pydantic" ELSE "ready")
       /\ \A i \in Idx : i > 1 => ~IsReady(wire[i])

\* Lines were read and frames written after the ready frame.
C7_Witness ==
  /\ pydantic
  /\ \E i \in Idx, j \in Idx : IsRequest(wire[i]) /\ IsCallback(wire[j])

\* C8: on a shutdown request the worker writes {id:<same id>, result:{ok:
\* true}} and terminates: the response is the last thing on the pipe and
\* no line is read after the request.
C8_ShutdownRepliesAndStops ==
  \A i \in Idx : (IsRequest(wire[i]) /\ wire[i].body = "shutdown") =>
    /\ Len(wire) = i + 1
    /\ wire[i + 1].dir = "out" /\ wire[i + 1].kind = "result"
    /\ wire[i + 1].body = "ok" /\ wire[i + 1].id = wire[i].id
    /\ pc = "done"

\* A shutdown request was read while the host still had lines to send.
C8_Witness ==
  /\ ~eof /\ NumIn(wire) < MaxLines
  /\ \E i \in Idx : IsRequest(wire[i]) /\ wire[i].body = "shutdown"

\* The main loop consumes a line of the given kind in this step.
MainReads(kind) ==
  /\ pc = "idle"
  /\ Len(wire') > Len(wire)
  /\ wire'[Len(wire) + 1].dir = "in"
  /\ wire'[Len(wire) + 1].kind = kind

\* C9: a line that is not parseable JSON gets exactly one error response
\* with code -32700 and id 0, leaves the namespace, exec_count, the
\* callback counter and the final output unchanged, and the worker goes on
\* reading.
C9_ParseErrorStep ==
  [][MainReads("junk") =>
       /\ Len(wire') = Len(wire) + 2
       /\ wire'[Len(wire) + 2].dir = "out" /\ wire'[Len(wire) + 2].kind = "error"
       /\ wire'[Len(wire) + 2].code = -32700 /\ wire'[Len(wire) + 2].id = 0
       /\ pc' = "idle"
       /\ UNCHANGED <<ns_vars, ns_globals, exec_count, callback_id_counter, final_output>>
    ]_vars

\* With variables set, an evaluation counted, a callback issued and a
\* final output stored, an unparseable line was read and the worker read
\* the next line.
C9_Witness ==
  /\ ns_vars["x"] # Absent /\ exec_count > 0
  /\ \E i \in Idx, j \in Idx :
       /\ i < j
       /\ wire[i].dir = "in" /\ wire[i].by = "main" /\ wire[i].kind = "junk"
       /\ wire[j].dir = "in" /\ wire[j].by = "main"

\* C10: a request whose method is none of the six gets an error response
\* with code -32601 and its own id, changes no worker state and does not
\* stop the worker.
C10_MethodNotFoundStep ==
  [][(MainReads("request") /\ wire'[Len(wire) + 1].body \notin KnownMethods) =>
       /\ Len(wire') = Len(wire) + 2
       /\ wire'[Len(wire) + 2].dir = "out" /\ wire'[Len(wire) + 2].kind = "error"
       /\ wire'[Len(wire) + 2].code = -32601
       /\ wire'[Len(wire) + 2].id = wire'[Len(wire) + 1].id
       /\ pc' = "idle"
       /\ UNCHANGED <<ns_vars, ns_globals, exec_count, callback_id_counter, final_output>>
    ]_vars

\* With variables set and an evaluation counted, a request with an unknown
\* method was read and the worker read the next line.
C10_Witness ==
  /\ ns_vars["x"] # Absent /\ exec_count > 0
  /\ \E i \in Idx, j \in Idx :
       /\ i < j
       /\ IsRequest(wire[i]) /\ wire[i].body \notin KnownMethods
       /\ wire[j].dir = "in" /\ wire[j].by = "main"

\* The line the main loop reads in this step and the frame that step
\* writes right after it.
LineRead == wire'[Len(wire) + 1]
Answer == wire'[Len(wire) + 2]

\* A name no namespace map binds.
BoundNowhere(name) ==
  name \notin NsNames \/ (ns_vars[name] = Absent /\ ns_globals[name] = Absent)

\* C11: when a handler raises (set_var with a name that is empty or not an
\* identifier, get_var of a name bound nowhere) the response is an error
\* with code -32603 and the request's id, and both namespace maps are as
\* they were before the request.
C11_HandlerErrorStep ==
  [][(/\ MainReads("request")
      /\ \/ LineRead.body = "set_var" /\ LineRead.arg \in {"", "1x"}
         \/ LineRead.body = "get_var" /\ BoundNowhere(LineRead.arg))
     =>
       /\ Len(wire') = Len(wire) + 2
       /\ Answer.dir = "out" /\ Answer.kind = "error"
       /\ Answer.code = -32603 /\ Answer.id = LineRead.id
       /\ UNCHANGED <<ns_vars, ns_globals>>
    ]_vars

\* With a variable set, a set_var with an empty name, a set_var with a name
\* that is no identifier or a get_var of an unbound name was answered.
C11_Witness ==
  /\ ns_vars["x"] # Absent
  /\ \E i \in Idx :
       /\ IsRequest(wire[i])
       /\ i < Len(wire) /\ wire[i + 1].kind = "error"
       /\ \/ wire[i].body = "set_var" /\ wire[i].arg = ""
          \/ wire[i].body = "get_var" /\ wire[i].arg = "q"

\* The response that answers the line at position i, if there is one.
ResponsesTo(i) == {j \in Idx : IsResponse(wire[j]) /\ wire[j].req = i}
IsExecuteRequest(e) == IsRequest(e) /\ e.body = "execute"

\* C12: an exception thrown by user code during execute (a syntax error
\* included) never yields a JSON-RPC error response and never terminates
\* the worker: no execute request is answered by an error frame, the
\* worker neither exits nor crashes, and an execute request whose handler
\* is over has a result response.
C12_ExceptionsBecomeResults ==
  /\ pc \notin {"exited", "crashed"}
  /\ \A i \in Idx : IsExecuteRequest(wire[i]) =>
        /\ \A j \in ResponsesTo(i) : wire[j].kind = "result"
        /\ (pc = "idle" => ResponsesTo(i) # {})

\* The frame written in this step, the last on the pipe after it.
Written == wire'[Len(wire')]

C14_BindingsSurviveRaise ==
  [][(OpRaise /\ cur.method = "execute") =>
       \A n \in {"x"} :
         (ns_globals[n] = Absent /\ gdict[n] # Absent) =>
           /\ NsGet(ns_vars', ns_globals', n) = gdict[n]
           /\ ns_globals'[n] = gdict[n]
    ]_vars

\* Names that are neither underscore-prefixed nor preloaded.
UserNames == {"x", "len"}

\* C15: once an execute that completes without error has assigned a user
\* variable, the variable stays visible with that value (through get_var,
\* list_vars and as a global of every later execute) across any later
\* requests, failing executes and executes that delete it from their own
\* globals included, until a set_var or an execute binds it to another
\* value. Step by step: a successful execute stores what its code bound; a
\* bound user variable is read back by get_var, listed by list_vars and
\* copied into the globals of an execute; its value changes only in a
\* set_var of that name or at the end of a successful execute that bound
\* it, and then to the value bound.
C15_UserVariablePersists ==
  [][\A n \in UserNames :
       /\ ((Finish \/ FinishValue) /\ cur.method = "execute" /\ gdict[n] # Absent) =>
            ns_vars'[n] = gdict[n]
       /\ ns_vars[n] # Absent =>
            /\ ns_globals[n] = ns_vars[n]
            /\ (MainReads("request") /\ LineRead.body = "get_var" /\ LineRead.arg = n) =>
                 /\ Answer.kind = "result"
                 /\ Answer.res.value = StringOf("str", ns_vars[n], Items(ns_vars[n]))
            /\ (MainReads("request") /\ LineRead.body = "list_vars") =>
                 \E e \in Answer.res.vars : e.name = n /\ e.type = TypeName(ns_vars[n])
            /\ (MainReads("request") /\ LineRead.body = "execute" /\ pc' = "run") =>
                 gdict'[n] = ns_vars[n]
            /\ ns_vars'[n] # ns_vars[n] =>
                 /\ ns_vars'[n] # Absent
                 /\ \/ /\ MainReads("request") /\ LineRead.body = "set_var"
                       /\ LineRead.arg = n /\ LineRead.val = ns_vars'[n]
                    \/ /\ pc = "run" /\ cur.method = "execute" /\ ~Written.err
                       /\ gdict[n] = ns_vars'[n]
    ]_vars

\* No set_var was sent; an execute succeeded and bound x, a later execute
\* failed, and now an execute has deleted x from its globals while the
\* namespace still binds it.
C15_Witness ==
  /\ \A i \in Idx : ~(IsRequest(wire[i]) /\ wire[i].body = "set_var")
  /\ \E i \in Idx, j \in Idx :
       /\ i < j
       /\ wire[i].dir = "out" /\ wire[i].body = "exec" /\ ~wire[i].err
       /\ wire[j].dir = "out" /\ wire[j].body = "exec" /\ wire[j].err
  /\ pc = "run" /\ cur.method = "execute"
  /\ ns_vars["x"] # Absent /\ gdict["x"] = Absent

\* The line at position i is a set_var request that succeeded, and neither
\* an execute request nor a set_var of the same name was read after it.
LatestSetVar(i) ==
  /\ IsRequest(wire[i]) /\ wire[i].body = "set_var"
  /\ i < Len(wire) /\ wire[i + 1].kind = "result"
  /\ \A k \in (i + 1)..Len(wire) :
       ~(/\ IsRequest(wire[k])
         /\ \/ wire[k].body = "execute"
            \/ wire[k].body = "set_var" /\ wire[k].arg = wire[i].arg)

\* C16: after set_var(name, s) succeeds with a string s, get_var(name)
\* with no slice returns value == s, length == len(s) and type "str", and
\* name is bound to s in the globals of the next execute, whether or not
\* name was bound before by set_var or by an execute.
C16_SetVarThenGetVar ==
  [][\A i \in Idx : LatestSetVar(i) =>
       /\ (MainReads("request") /\ LineRead.body = "get_var"
             /\ LineRead.arg = wire[i].arg /\ LineRead.opt = NoOpt) =>
            /\ Answer.dir = "out" /\ Answer.kind = "result" /\ Answer.id = LineRead.id
            /\ Answer.res.value = [conv |-> "str", type |-> "str", items |-> Items(wire[i].val)]
            /\ Answer.res.length = Len(Items(wire[i].val))
            /\ Answer.res.type = "str"
       /\ (MainReads("request") /\ LineRead.body = "execute" /\ pc' = "run") =>
            gdict'[wire[i].arg] = wire[i].val
    ]_vars

\* x was set to one string, set again to another, and read back.
C16_Witness ==
  \E i \in Idx, j \in Idx, k \in Idx :
    /\ i < j /\ j < k
    /\ IsRequest(wire[i]) /\ wire[i].body = "set_var" /\ wire[i].arg = "x"
    /\ wire[i + 1].kind = "result"
    /\ LatestSetVar(j) /\ wire[j].arg = "x" /\ wire[j].val # wire[i].val
    /\ IsRequest(wire[k]) /\ wire[k].body = "get_var" /\ wire[k].arg = "x"
    /\ k < Len(wire) /\ wire[k + 1].kind = "result"

\* The values that have a length and can be sliced: strings and lists.
SequenceValues == {"s1", "s2", "", "abc", ListVal}

\* C17: for a stored value v and integers start and end, get_var returns
\* length == len(v), measured before slicing, and type == the type name of
\* v, while value is the string form of v[start:end] when end # 0, of
\* v[start:] when end = 0 and start # 0, and of v when both are 0; the
\* stored value is not modified.
C17_GetVarSlice ==
  [][(probe.fn = "get_var" /\ ~probe.done /\ probe'.done /\ probe.v \in SequenceValues) =>
       /\ ~probe'.out.raised
       /\ probe'.out.length = Len(Items(probe.v))
       /\ probe'.out.type = TypeName(probe.v)
       /\ probe'.out.value.conv = (IF probe.as_repr THEN "repr" ELSE "str")
       /\ probe'.out.value.items =
            (IF probe.end # 0 THEN PySlice(Items(probe.v), probe.start, probe.end)
             ELSE IF probe.start # 0 THEN PySliceFrom(Items(probe.v), probe.start)
             ELSE Items(probe.v))
       /\ probe'.v = probe.v
       /\ UNCHANGED <<ns_vars, ns_globals>>
    ]_vars

\* "abc"[-2:] was asked for: the value is "bc", the length 3.
C17_Witness ==
  /\ probe.fn = "get_var" /\ probe.done
  /\ probe.v = "abc" /\ probe.start = -2 /\ probe.end = 0
  /\ probe.out.value.items = <<"b", "c">> /\ probe.out.length = 3

\* The names of each kind among the names of the namespace.
UnderscoreNames == {"_t"}
PreloadedNames == {"json"}
PyBuiltinNames == {"len"}

\* A response to list_vars.
IsListing(e) == e.dir = "out" /\ e.kind = "result" /\ e.body = "vars"

\* C18: after any sequence of set_var and execute requests, no entry
\* returned by list_vars has a name that begins with an underscore.
C18_NoUnderscoreNameListed ==
  \A i \in Idx : IsListing(wire[i]) =>
    \A e \in wire[i].res.vars : e.name \notin UnderscoreNames

\* C19: after any sequence of set_var and execute requests, no entry
\* returned by list_vars has the name of a preloaded binding or helper.
C19_NoPreloadedNameListed ==
  \A i \in Idx : IsListing(wire[i]) =>
    \A e \in wire[i].res.vars : e.name \notin PreloadedNames

\* C20: after a successful evaluation, reconciliation records as user
\* variables, and merges into the binding map, exactly the names of the
\* post-execution globals that are not underscore-prefixed, not names of
\* builtins, not preloaded or helper names, and are new or bound to an
\* object of another identity than before; every other name is recorded
\* nowhere.
C20_ReconcileExactly ==
  [][((Finish \/ FinishValue) /\ cur.method = "execute") =>
       \A n \in NsNames :
         IF /\ gdict[n] # Absent
            /\ n \notin UnderscoreNames
            /\ n \notin PyBuiltinNames
            /\ n \notin PreloadedNames
            /\ (ns_globals[n] = Absent \/ ns_globals[n] # gdict[n])
         THEN ns_vars'[n] = gdict[n] /\ ns_globals'[n] = gdict[n]
         ELSE ns_vars'[n] = ns_vars[n] /\ ns_globals'[n] = ns_globals[n]
    ]_vars

\* C21: if the input stream reaches EOF while the worker waits for a
\* callback response, the worker terminates: the EOF is the last thing
\* that happens on the pipe (no later callback frame, no execute response)
\* and the user code is not resumed.
C21_EofInCallbackIsFatal ==
  \A i \in Idx : (IsCallbackReply(wire[i]) /\ wire[i].kind = "eof") =>
    /\ i = Len(wire)
    /\ pc \in {"crashed", "exited"}

\* The step reads, as the reply to a helper's own callback, a response with
\* a non-empty error.
ReadsErrorReply ==
  /\ pc = "await" /\ probe.fn \in Helpers /\ ~probe.done /\ probe.k = 0
  /\ Len(wire') > Len(wire)
  /\ IsCallbackReply(wire'[Len(wire) + 1])
  /\ wire'[Len(wire) + 1].kind = "reply" /\ wire'[Len(wire) + 1].body = "error"

\* The step writes nothing, answers no request, and hands control back to
\* the user code with the state of the worker as it was.
ResumesUserCode ==
  /\ Len(wire') = Len(wire) + 1
  /\ pc' = "run" /\ probe'.done
  /\ UNCHANGED <<cur, steps, gdict, outbuf, worker>>

\* C22 as stated: a callback response with a non-empty error never becomes
\* a worker-level error: llm_call returns a placeholder string, a memory
\* helper an empty list or an empty string, a verification helper an
\* 'unverifiable' record, and the user code continues after the call.
C22_ErrorReplyDegrades ==
  [][(ReadsErrorReply /\ probe.fn # "llm_batch") =>
       /\ ResumesUserCode
       /\ probe.fn \in {"llm_call", "summarize"} =>
            (probe'.out.kind = "str" /\ probe'.out.mark = "LLM_CALL_ERROR")
       /\ probe.fn \in MemoryHelpers =>
            probe'.out \in {Ret("list", "", <<>>), Ret("str", "", <<>>)}
       /\ probe.fn \in VerifyHelpers =>
            (probe'.out.kind = "dict" /\ probe'.out.mark = "unverifiable")
    ]_vars

\* C22, amended: as above, but of the verification helpers only
\* verify_claim and audit_trace return a record marked 'unverifiable';
\* verify_claims returns an empty tally (no claims, no results) that
\* carries the error text.
C22_ErrorReplyDegradesAmended ==
  [][(ReadsErrorReply /\ probe.fn # "llm_batch") =>
       /\ ResumesUserCode
       /\ probe.fn \in {"llm_call", "summarize"} =>
            (probe'.out.kind = "str" /\ probe'.out.mark = "LLM_CALL_ERROR")
       /\ probe.fn \in {"memory_query", "memory_get_context"} =>
            probe'.out = Ret("list", "", <<>>)
       /\ probe.fn \in MemoryHelpers \ {"memory_query", "memory_get_context"} =>
            probe'.out = Ret("str", "", <<>>)
       /\ probe.fn \in {"verify_claim", "audit_trace"} =>
            (probe'.out.kind = "dict" /\ probe'.out.mark = "unverifiable")
       /\ probe.fn = "verify_claims" =>
            probe'.out = Ret("dict", "no claims", <<"error">>)
    ]_vars

\* verify_claims got an error reply, the code went on and returned, and
\* its execute was answered with a result that reports no error.
C22_Witness ==
  /\ pc = "idle" /\ probe.fn = "verify_claims" /\ probe.done
  /\ \E i \in Idx, j \in Idx :
       /\ i < j
       /\ IsCallbackReply(wire[i]) /\ wire[i].kind = "reply" /\ wire[i].body = "error"
       /\ wire[j].dir = "out" /\ wire[j].kind = "result" /\ wire[j].body = "exec" /\ ~wire[j].err

\* Position in w of the frame of llm_batch's own callback, the last one.
BatchFrameAt(w) ==
  CHOOSE b \in 1..Len(w) :
    /\ IsCallback(w[b]) /\ w[b].body = "llm_batch"
    /\ \A j \in (b + 1)..Len(w) : ~(IsCallback(w[j]) /\ w[j].body = "llm_batch")

\* C23: when the llm_batch callback fails, llm_batch with n prompts emits
\* exactly n llm_call frames, one per prompt in prompt order with its
\* paired context, carrying the next n consecutive callback ids, and
\* returns a list of n entries; when the batch callback succeeds it emits
\* no llm_call frame.
C23_BatchFallback ==
  [][(probe.fn = "llm_batch" /\ ~probe.done /\ probe'.done) =>
       LET w == wire'
           b == BatchFrameAt(w)
           n == Len(probe.prompts)
       IN IF ReplySucceeds(w[b + 1])
          THEN Len(w) = b + 1
          ELSE /\ Len(w) = b + 1 + 2 * n
               /\ \A k \in 1..n :
                    /\ IsCallback(w[b + 2 * k]) /\ w[b + 2 * k].body = "llm_call"
                    /\ w[b + 2 * k].id = w[b].id + k
                    /\ w[b + 2 * k].arg = probe.prompts[k]
                    /\ w[b + 2 * k].val = probe.contexts[k]
                    /\ IsCallbackReply(w[b + 2 * k + 1])
               /\ probe'.out.kind = "list" /\ Len(probe'.out.entries) = n
    ]_vars

\* llm_batch with two prompts and two different contexts got an error
\* reply, asked both prompts one by one, and returned.
C23_Witness ==
  /\ probe.fn = "llm_batch" /\ probe.done /\ probe.k = 2
  /\ Len(probe.prompts) = 2 /\ probe.contexts[1] # probe.contexts[2]
  /\ \E i \in Idx :
       /\ IsCallbackReply(wire[i]) /\ wire[i].kind = "reply" /\ wire[i].body = "error"
       /\ IsCallback(wire[i - 1]) /\ wire[i - 1].body = "llm_batch"

\* The switch the claim names for each helper: disable_callbacks for
\* llm_call, llm_batch and what is built on them, disable_memory for the
\* memory_* helpers, disable_hallucination_detection for the rest.
SwitchOf(h) ==
  CASE h \in {"llm_call", "llm_batch", "summarize"} -> "callbacks"
    [] h \in {"verify_claim", "verify_claims", "audit_trace"} -> "hallucination"
    [] OTHER -> "memory"

\* C24: while a subsystem is disabled its helpers write no callback frame,
\* read no input line, do not advance the callback-id counter and return a
\* placeholder determined only by their arguments; a flag changes only in
\* a call of a disable_* or enable_* helper, so it persists across execute
\* requests.
C24_DisabledHelpersAreSilent ==
  [][/\ (OpHelper /\ ~enabled[SwitchOf(probe'.fn)]) =>
          /\ UNCHANGED <<wire, eof, callback_id_counter, pc>>
          /\ probe'.done
          /\ probe'.out = DisabledReturn(probe'.fn, probe'.prompts, probe'.contexts)
     /\ (OpHelper /\ enabled[SwitchOf(probe'.fn)]) =>
          (Len(wire') = Len(wire) + 1 /\ pc' = "await")
     /\ \A sub \in DOMAIN enabled :
          /\ (enabled[sub] /\ ~enabled'[sub]) => OpDisable
          /\ (~enabled[sub] /\ enabled'[sub]) => OpEnable
    ]_vars

\* A verification helper was called as the first thing of an execute while
\* its subsystem was disabled by an earlier execute, the other subsystems
\* being enabled.
C24_Witness ==
  /\ pc = "run" /\ steps = 1
  /\ probe.fn \in VerifyHelpers /\ probe.done
  /\ ~enabled.hallucination /\ enabled.callbacks /\ enabled.memory
  /\ \A i \in Idx : ~IsCallback(wire[i])

\* C25: if the CPU-limit signal is delivered at any point during an
\* evaluation (in plain user code, inside a helper, or while blocked on a
\* callback response), that execute's response is a result whose error
\* reports 'CPU time limit exceeded', and the worker goes on to serve
\* later requests.
C25_CpuSignalReported ==
  [][(/\ cur.method = "execute" /\ pc \in {"run", "await"}
      /\ (cur.sig \/ CpuSignal)
      /\ pc' \notin {"run", "await"}) =>
       /\ pc' = "idle"
       /\ wire'[Len(wire')].dir = "out" /\ wire'[Len(wire')].kind = "result"
       /\ wire'[Len(wire')].body = "exec" /\ wire'[Len(wire')].id = cur.id
       /\ wire'[Len(wire')].res.error = CpuExceeded
    ]_vars

\* C26: delivery of the CPU-exceeded signal never terminates the worker,
\* whatever it is doing when the signal arrives: the worker is still
\* reading or evaluating afterwards.
C26_CpuSignalNeverFatal ==
  [][CpuSignal => pc' \in {"idle", "run", "await"}]_vars

\* The execute requests the main loop read before position i of the pipe.
ExecutesBefore(i) ==
  Cardinality({j \in 1..(i - 1) : j \in Idx /\ IsRequest(wire[j]) /\ wire[j].body = "execute"})

IsStatusResponse(e) == e.dir = "out" /\ e.kind = "result" /\ e.body = "status"

\* C27: the exec_count that status reports equals the number of execute
\* requests handled so far, those whose code failed to parse or raised
\* included; no other request or line changes the counter, which therefore
\* never decreases.
C27_ExecCountCountsExecutes ==
  /\ exec_count = ExecutesBefore(Len(wire) + 1)
  /\ \A i \in Idx : IsStatusResponse(wire[i]) =>
       wire[i].res.count = ExecutesBefore(wire[i].req)

\* status reported 2 after one execute whose code did not parse and one
\* whose code raised.
C27_Witness ==
  \E i \in Idx, j \in Idx, k \in Idx :
    /\ IsStatusResponse(wire[i]) /\ wire[i].res.count = 2
    /\ j < i /\ k < i
    /\ IsRequest(wire[j]) /\ wire[j].body = "execute" /\ wire[j].arg = "bad_syntax"
    /\ wire[k].dir = "out" /\ wire[k].body = "exec" /\ wire[k].res.error = "Exception"

\* The callback frames written so far for the request read at position r.
CallbacksFor(w, r) == Cardinality({i \in 1..Len(w) : IsCallback(w[i]) /\ w[i].req = r})

\* C28: for code that is a single expression and evaluates without
\* raising, the execute result has return_value equal to repr of the value
\* when the value is not None and "" when it is, and an empty error; the
\* expression is evaluated exactly once (a callback helper called in it
\* emits one frame).
C28_ExpressionForm ==
  [][(/\ cur.method = "execute" /\ cur.form = "expr" /\ pc = "run" /\ pc' = "idle"
      /\ ~ExprRaises(cur.expr, 1)) =>
       LET f == wire'[Len(wire')]
           v == ExprValue(cur.expr)
       IN /\ f.dir = "out" /\ f.kind = "result" /\ f.body = "exec" /\ f.id = cur.id
          /\ ~f.err /\ f.res.error = ""
          /\ f.res.value = IF v = NoneVal THEN NoText
                           ELSE [conv |-> "repr", type |-> TypeName(v), items |-> Items(v)]
          /\ cur.evals = 1
          /\ CallbacksFor(wire', cur.pos) = IF cur.expr = "llm_call('hi')" THEN 1 ELSE 0
    ]_vars

\* Three expressions were answered: a call of llm_call with the repr of
\* what it returned, None with no return_value, a list with its repr.
C28_Witness ==
  \E i \in Idx, j \in Idx, k \in Idx :
    /\ wire[i].dir = "out" /\ wire[i].body = "exec" /\ wire[i].res.value.type = "str"
    /\ wire[wire[i].req].arg = "expr" /\ wire[wire[i].req].val = "llm_call('hi')"
    /\ wire[j].dir = "out" /\ wire[j].body = "exec" /\ wire[j].res.value = NoText
    /\ wire[wire[j].req].arg = "expr" /\ wire[wire[j].req].val = "None"
    /\ wire[k].dir = "out" /\ wire[k].body = "exec" /\ wire[k].res.value.type = "list"
    /\ wire[wire[k].req].arg = "expr"

\* C29: whenever a final output is set, its type tag is one of text, json,
\* code, markdown, whatever FINAL, FINAL_VAR, FINAL_JSON and FINAL_CODE
\* calls, with whatever arguments, the user code has made.
C29_FinalTypeIsOneOfFour ==
  final_output # NoFinal => final_output.type \in {"text", "json", "code", "markdown"}

\* The record a call of the FINAL family stores, from its arguments.
RecordOf(c) ==
  CASE c.fn = "FINAL" ->
         [content |-> [conv |-> "str", type |-> TypeName(c.arg), items |-> Items(c.arg)],
          type |-> c.type, metadata |-> ""]
    [] c.fn = "FINAL_VAR" ->
         [content |-> [conv |-> "str", type |-> TypeName(c.arg), items |-> Items(c.arg)],
          type |-> "text", metadata |-> ""]
    [] c.fn = "FINAL_JSON" ->
         [content |-> [conv |-> "json", type |-> TypeName(c.arg), items |-> Items(c.arg)],
          type |-> "json", metadata |-> ""]
    [] OTHER ->
         [content |-> [conv |-> "", type |-> TypeName(c.arg), items |-> Items(c.arg)],
          type |-> "code", metadata |-> c.lang]

FinalFamily == OpFinalTyped \/ OpFinalVar \/ OpFinalJson \/ OpFinalCode

Terminated == pc \in {"done", "exited", "crashed"}
\* The main loop found the end of its input at position i.
IsMainEof(i) == wire[i].dir = "in" /\ wire[i].by = "main" /\ wire[i].kind = "eof"

FinalLlmCallAnswered ==
  /\ pc = "run" /\ pc' = "idle" /\ cur.method = "execute"
  /\ cur.expr \in RoundExprs /\ CallsFinal(cur.expr)
  /\ IsCallbackReply(wire[Len(wire)])
  /\ wire[Len(wire)].kind = "reply" /\ wire[Len(wire)].body = "result"

\* One callback frame was written for the request, of type llm_call, with
\* the prompt, the context (default "") and the model (default "auto"), and
\* llm_call returned the reply's result, whose string form FINAL stored.
OneFrameAndResultStored ==
  LET frame == wire[Len(wire) - 1]
      result == wire[Len(wire)].val
      a == LlmArgs(cur.expr)
  IN /\ CallbacksFor(wire', cur.pos) = 1
     /\ IsCallback(frame) /\ frame.body = "llm_call" /\ frame.req = cur.pos
     /\ frame.arg = a[1]
     /\ frame.val = (IF Len(a) >= 2 THEN a[2] ELSE "")
     /\ frame.opt.model = (IF Len(a) >= 3 THEN a[3] ELSE "auto")
     /\ probe.out = result
     /\ final_output'.type = "text"
     /\ final_output'.content =
          [conv |-> "str", type |-> TypeName(result), items |-> Items(result)]
     /\ Written.dir = "out" /\ Written.kind = "result" /\ Written.body = "exec"
     /\ Written.id = cur.id /\ ~Written.err

\* C32 as stated: a successful llm_call(prompt) emits exactly one callback
\* frame of type llm_call whose params are the prompt, the context (default
\* empty string) and the model (default 'auto'), and returns exactly the
\* value of the reply's result, so execute of FINAL(llm_call(p)) answers
\* with return_value equal to repr of that result and stores its string
\* form as the final output.
C32_LlmCallRoundTrip ==
  [][FinalLlmCallAnswered =>
       /\ OneFrameAndResultStored
       /\ Written.res.value =
            [conv |-> "repr", type |-> TypeName(wire[Len(wire)].val),
             items |-> Items(wire[Len(wire)].val)]
    ]_vars

\* C32, amended: as above, but return_value is the repr of the result only
\* when the result is not null; for a null result return_value is empty
\* (and the final output is the string "None").
C32_LlmCallRoundTripAmended ==
  [][FinalLlmCallAnswered =>
       /\ OneFrameAndResultStored
       /\ Written.res.value =
            (IF wire[Len(wire)].val = NoneVal THEN NoText
             ELSE [conv |-> "repr", type |-> TypeName(wire[Len(wire)].val),
                   items |-> Items(wire[Len(wire)].val)])
    ]_vars

\* FINAL(llm_call('hi')) was answered after the host replied with the
\* result "s1": return_value is its repr, the final output its string form.
C32_Witness ==
  /\ pc = "idle"
  /\ final_output.content = [conv |-> "str", type |-> "str", items |-> <<"s", "1">>]
  /\ \E i \in Idx :
       /\ i > 3
       /\ wire[i].dir = "out" /\ wire[i].body = "exec"
       /\ wire[i].res.value = [conv |-> "repr", type |-> "str", items |-> <<"s", "1">>]
       /\ IsCallbackReply(wire[i - 1]) /\ wire[i - 1].val = "s1"
       /\ IsCallback(wire[i - 2]) /\ wire[i - 2].opt = [model |-> "auto"]
       /\ wire[wire[i].req].val = "FINAL(llm_call('hi'))"

\* The step answers an execute whose code is a block that ends in an
\* expression statement, the block itself having run without raising.
BlockWithTailAnswered ==
  /\ pc = "run" /\ pc' = "idle"
  /\ cur.method = "execute" /\ cur.form = "block_expr"
  /\ cur.evals >= 1 /\ ~ExprRaises(cur.expr, 1)

\* C33: in block form, when the last top-level statement is an expression
\* statement and the block ran without raising, return_value is the repr
\* of the value the separate evaluation of that expression gave (empty if
\* it is None); if that separate evaluation raises, the failure is ignored:
\* error is empty, return_value is empty, and the bindings the block made
\* are in both namespace maps.
C33_BlockTrailingExpression ==
  [][BlockWithTailAnswered =>
       LET v == TailValue(cur.expr) IN
       /\ Written.dir = "out" /\ Written.kind = "result" /\ Written.body = "exec"
       /\ Written.id = cur.id
       /\ ~Written.err /\ Written.res.error = ""
       /\ IF ExprRaises(cur.expr, 2)
          THEN /\ Written.res.value = NoText
               /\ \A n \in AssignNames :
                    gdict[n] # Absent => (ns_vars'[n] = gdict[n] /\ ns_globals'[n] = gdict[n])
          ELSE Written.res.value =
                 (IF v = NoneVal THEN NoText
                  ELSE [conv |-> "repr", type |-> TypeName(v), items |-> Items(v)])
    ]_vars

\* A block bound x and printed, and ended in next(it), which raised when
\* it was evaluated again: the result has no error and no return_value,
\* and x is a user variable.
C33_Witness ==
  /\ pc = "idle" /\ ns_vars["x"] # Absent
  /\ \E i \in Idx :
       /\ wire[i].dir = "out" /\ wire[i].body = "exec"
       /\ ~wire[i].err /\ wire[i].res.value = NoText
       /\ wire[wire[i].req].arg = "block_expr" /\ wire[wire[i].req].val = "next(it)"
       /\ \A j \in 1..i : ~(IsRequest(wire[j]) /\ j # wire[i].req)

\* The positions in w of the callback frames written for the request read
\* at position r.
FramesFor(w, r) == {i \in 1..Len(w) : IsCallback(w[i]) /\ w[i].req = r}

\* C34: in block form the trailing expression statement is evaluated twice
\* (once inside the block, once to obtain return_value): a callback helper
\* called in it emits two callback frames with consecutive ids and consumes
\* two host replies, and what the second evaluation binds is not
\* reconciled into the namespace (the maps hold what the first evaluation
\* bound); in expression form the code is evaluated once.
C34_TrailingExpressionTwice ==
  [][(/\ pc = "run" /\ pc' = "idle" /\ cur.method = "execute"
      /\ cur.form \in {"expr", "block_expr"}
      /\ cur.evals >= 1 /\ ~ExprRaises(cur.expr, 1)) =>
       LET fs == FramesFor(wire', cur.pos)
           block == cur.form = "block_expr"
       IN
       /\ cur.expr = "llm_call('hi')" =>
            /\ Cardinality(fs) = (IF block THEN 2 ELSE 1)
            /\ \A i \in fs : IsCallbackReply(wire'[i + 1])
            /\ \A i \in fs, j \in fs : i < j => (j = i + 2 /\ wire'[j].id = wire'[i].id + 1)
       /\ cur.expr = "(x := next(it2))" =>
            /\ ns_vars'["x"] = "s1" /\ ns_globals'["x"] = "s1"
            /\ gdict["x"] = (IF block THEN "s2" ELSE "s1")
            /\ Written.res.value =
                 [conv |-> "repr", type |-> "str", items |-> Items(gdict["x"])]
    ]_vars

\* A block that ends in llm_call('hi') was answered after two callback
\* frames with the ids 1 and 2, each followed by a reply of the host.
C34_Witness ==
  /\ pc = "idle"
  /\ \E i \in Idx :
       /\ i > 5
       /\ wire[i].dir = "out" /\ wire[i].body = "exec" /\ ~wire[i].err
       /\ wire[wire[i].req].arg = "block_expr" /\ wire[wire[i].req].val = "llm_call('hi')"
       /\ IsCallback(wire[i - 4]) /\ wire[i - 4].id = 1 /\ IsCallbackReply(wire[i - 3])
       /\ IsCallback(wire[i - 2]) /\ wire[i - 2].id = 2 /\ IsCallbackReply(wire[i - 1])

\* C35: in every reachable state every name in the user-variable map is
\* also in the binding map, bound there to the identical value; so what
\* get_var (which prefers the user-variable map) returns for a user
\* variable is the string form of its binding, and the globals of the next
\* execute bind it to the same value.
C35_VarsWithinGlobals ==
  /\ [](\A n \in NsNames : ns_vars[n] # Absent => ns_globals[n] = ns_vars[n])
  /\ [][\A n \in NsNames : ns_vars[n] # Absent =>
          /\ (MainReads("request") /\ LineRead.body = "get_var" /\ LineRead.arg = n) =>
               /\ Answer.kind = "result"
               /\ Answer.res.value =
                    [conv |-> "str", type |-> TypeName(ns_globals[n]),
                     items |-> Items(ns_globals[n])]
          /\ (MainReads("request") /\ LineRead.body = "execute" /\ pc' = "run") =>
               gdict'[n] = ns_vars[n]
       ]_vars

\* json was injected with set_var, an execute then rebound json and bound x
\* and succeeded, and a third request has been read.
C35_Witness ==
  /\ ns_vars["json"] \in NsStrVals /\ ns_vars["x"] # Absent
  /\ \E i \in Idx, j \in Idx :
       /\ i < j
       /\ wire[i].dir = "out" /\ wire[i].body = "exec" /\ ~wire[i].err
       /\ IsRequest(wire[j])

\* No set_var request for the name has been read.
NeverInjected(n) ==
  \A i \in Idx : ~(IsRequest(wire[i]) /\ wire[i].body = "set_var" /\ wire[i].arg = n)

\* C36: a name beginning with '_' that user code binds during an execute
\* is not carried over: unless it was injected with set_var, it is in
\* neither namespace map after the execute, absent from the globals of the
\* next execute, and unknown to get_var.
C36_UnderscoreNotCarriedOver ==
  /\ [](\A n \in UnderscoreNames : NeverInjected(n) => BoundNowhere(n))
  /\ [][\A n \in UnderscoreNames : NeverInjected(n) =>
          /\ (Finish /\ cur.method = "execute" /\ gdict[n] # Absent) =>
               (ns_vars'[n] = Absent /\ ns_globals'[n] = Absent)
          /\ (MainReads("request") /\ LineRead.body = "get_var" /\ LineRead.arg = n) =>
               (Answer.kind = "error" /\ Answer.code = -32603)
          /\ (MainReads("request") /\ LineRead.body = "execute" /\ pc' = "run") =>
               gdict'[n] = Absent
       ]_vars

\* _t was never injected; an execute has succeeded, get_var of _t was
\* refused after it, and the code of a later execute has bound _t in its
\* globals, where the name was unbound when it started.
C36_Witness ==
  /\ NeverInjected("_t")
  /\ pc = "run" /\ cur.method = "execute"
  /\ gdict["_t"] # Absent /\ ns_globals["_t"] = Absent
  /\ \E i \in Idx, j \in Idx :
       /\ i < j
       /\ wire[i].dir = "out" /\ wire[i].body = "exec" /\ ~wire[i].err
       /\ IsRequest(wire[j]) /\ wire[j].body = "get_var" /\ wire[j].arg = "_t"
       /\ wire[j + 1].kind = "error"

\* C37: no execute changes the persistent binding of a preloaded or helper
\* name: whatever the code does to such a name (rebinding it, deleting it)
\* happens in that evaluation's copy of the globals; the namespace maps
\* keep their entry for the name through every step of the execute, and
\* the next execute starts with the original preloaded object bound to it.
C37_PreloadedBindingsPersist ==
  /\ [](\A n \in PreloadedNames : NeverInjected(n) =>
          (ns_globals[n] = Preloaded /\ ns_vars[n] = Absent))
  /\ [][\A n \in PreloadedNames :
          /\ (pc = "run" /\ cur.method = "execute") =>
               (ns_globals'[n] = ns_globals[n] /\ ns_vars'[n] = ns_vars[n])
          /\ (MainReads("request") /\ LineRead.body = "execute" /\ pc' = "run") =>
               /\ gdict'[n] = ns_globals[n]
               /\ NeverInjected(n) => gdict'[n] = Preloaded
       ]_vars

\* An execute has succeeded, and the code of a later execute, which
\* started with the preloaded json, has rebound or deleted json in its
\* globals.
C37_Witness ==
  /\ NeverInjected("json")
  /\ pc = "run" /\ cur.method = "execute"
  /\ gdict["json"] # Preloaded /\ ns_globals["json"] = Preloaded
  /\ \E i \in Idx : wire[i].dir = "out" /\ wire[i].body = "exec" /\ ~wire[i].err

\* The step reads, as the reply to a callback, a line that is not JSON.
ReadsJunkReply ==
  /\ pc = "await" /\ probe.fn \in Helpers /\ ~probe.done
  /\ Len(wire') > Len(wire)
  /\ IsCallbackReply(wire'[Len(wire) + 1]) /\ wire'[Len(wire) + 1].kind = "junk"

\* What each helper other than llm_batch returns when its callback failed.
FailureValue(h) ==
  CASE h \in {"llm_call", "summarize"} -> Ret("str", "LLM_CALL_ERROR", <<>>)
    [] h \in {"memory_query", "memory_get_context"} -> Ret("list", "", <<>>)
    [] h \in {"verify_claim", "audit_trace"} -> Ret("dict", "unverifiable", <<"error">>)
    [] h = "verify_claims" -> Ret("dict", "no claims", <<"error">>)
    [] OTHER -> Ret("str", "", <<>>)

\* What the claim says of the step that reads such a line.
JunkReplyHandled ==
  /\ pc' \in {"run", "await"}
  /\ \A i \in (Len(wire) + 1)..Len(wire') : wire'[i].kind # "error"
  /\ UNCHANGED <<cur, steps, gdict, outbuf, ns_vars, ns_globals, exec_count,
                 final_output, enabled>>
  /\ IF probe.fn # "llm_batch"
     THEN /\ Len(wire') = Len(wire) + 1 /\ pc' = "run"
          /\ probe'.done /\ probe'.out = FailureValue(probe.fn)
     ELSE IF probe.k = 0 /\ Len(probe.prompts) > 0
     THEN /\ Len(wire') = Len(wire) + 2 /\ pc' = "await"
          /\ IsCallback(wire'[Len(wire')]) /\ wire'[Len(wire')].body = "llm_call"
     ELSE /\ probe'.done => (pc' = "run" /\ probe'.out.kind = "list")
          /\ (probe'.done /\ probe.k > 0) =>
               probe'.out.entries[probe.k] = Ret("str", "LLM_CALL_ERROR", <<>>)

\* C38: a callback reply line that is not valid JSON is handled as a
\* failure of the calling helper: the line is consumed by the callback
\* read, no -32700 frame is written for it and the worker does not crash;
\* the helper returns its placeholder or empty default and the user code
\* goes on (llm_batch, whose batch callback failed so, goes on with its
\* one-by-one fallback, where such a line gives a placeholder entry); the
\* in-flight execute gets exactly one response, and once it is answered
\* the next input line is read by the main loop as a command.
C38_JunkReplyIsHelperFailure ==
  /\ [](\A i \in Idx :
          /\ (IsCallbackReply(wire[i]) /\ wire[i].kind = "junk") => ResponsesTo(i) = {}
          /\ IsExecuteRequest(wire[i]) =>
               Cardinality(ResponsesTo(i)) = (IF InFlight /\ cur.pos = i THEN 0 ELSE 1))
  /\ [][(ReadsJunkReply => JunkReplyHandled)
        /\ ((pc = "idle" /\ Len(wire') > Len(wire)) =>
              (wire'[Len(wire) + 1].dir = "in" /\ wire'[Len(wire) + 1].by = "main"))
       ]_vars

\* llm_call read a line that is no JSON as its reply, the execute was
\* answered with a result, and the main loop then read a line that is no
\* JSON and answered it -32700.
C38_Witness ==
  /\ pc = "idle" /\ probe.fn = "llm_call" /\ probe.done
  /\ \E i \in Idx :
       /\ IsCallbackReply(wire[i]) /\ wire[i].kind = "junk"
       /\ i + 3 = Len(wire)
       /\ wire[i + 1].dir = "out" /\ wire[i + 1].body = "exec" /\ ~wire[i + 1].err
       /\ wire[i + 2].dir = "in" /\ wire[i + 2].by = "main" /\ wire[i + 2].kind = "junk"
       /\ IsParseErrorFrame(wire[i + 3])

\* The step is a call of llm_batch with prompts and contexts of different
\* lengths.
MismatchedBatch ==
  /\ OpBatch /\ probe'.fn = "llm_batch"
  /\ probe'.contexts # NoContexts /\ Len(probe'.prompts) # Len(probe'.contexts)

\* C40: llm_batch called with prompts and contexts of different lengths
\* raises before any I/O: the step writes no callback frame, reads no
\* line and leaves the callback-id counter as it was; the call ends in a
\* ValueError, not in a placeholder, and unless the code itself catches it
\* the execute is answered with a result whose error names it.
C40_BatchLengthMismatch ==
  [][MismatchedBatch =>
       /\ UNCHANGED <<callback_id_counter, eof>>
       /\ \A i \in (Len(wire) + 1)..Len(wire') : wire'[i].dir = "out" /\ ~IsCallback(wire'[i])
       /\ probe'.done /\ probe'.out = Ret("raise", "ValueError", <<>>)
       /\ pc' \in {"run", "idle"}
       /\ IF pc' = "run" THEN wire' = wire
          ELSE /\ Len(wire') = Len(wire) + 1
               /\ Written.kind = "result" /\ Written.body = "exec" /\ Written.id = cur.id
               /\ Written.err /\ Written.res.error = "ValueError"
               /\ Written.res.value = NoText
    ]_vars

\* llm_batch was called with two prompts and one context while callbacks
\* were enabled: the execute was answered with the ValueError, no callback
\* frame was ever written and the counter is 0.
C40_Witness ==
  /\ pc = "idle" /\ callback_id_counter = 0 /\ enabled.callbacks
  /\ probe.fn = "llm_batch" /\ probe.done
  /\ Len(probe.prompts) = 2 /\ Len(probe.contexts) = 1
  /\ \A i \in Idx : ~IsCallback(wire[i])
  /\ wire[Len(wire)].dir = "out" /\ wire[Len(wire)].body = "exec"
  /\ wire[Len(wire)].res.error = "ValueError"

\* The step is taken on behalf of a get_var, list_vars or status request:
\* the handler itself, or the methods of the value it reads.
ReadOnlyRequestStep ==
  \/ GetVar \/ ListVars \/ Status
  \/ pc \in {"run", "await"} /\ cur.method \in {"get_var", "list_vars"}

\* C39: get_var, list_vars and status are read-only: no step taken on
\* their behalf changes the user-variable map, the binding map, exec_count,
\* the callback-id counter or the final-output slot.
C39_ReadOnlyRequests ==
  [][ReadOnlyRequestStep =>
       UNCHANGED <<ns_vars, ns_globals, exec_count, callback_id_counter, final_output>>]_vars
====
